---- MODULE Spec2Model ----
(***************************************************************************)
(* catdoc: the documentation pipeline of services/DocManager.ts (watcher,  *)
(* debounce, pending queue, drain loop, generation, store and artifacts)   *)
(* and the change detector of services/treesitter.ts.                      *)
(*                                                                         *)
(* One action of the pipeline is one turn of the Node event loop: the      *)
(* callback that runs, with every synchronous call and promise             *)
(* continuation it triggers before control returns to the loop.            *)
(* Time is counted in seconds: Tick lets one second pass.                  *)
(***************************************************************************)
EXTENDS Integers, Sequences, FiniteSets, TLC

(***************************************************************************)
(* Paths are sequences of one-character strings so that the regular       *)
(* expressions of the code can be computed character by character.         *)
(***************************************************************************)
P_a    == <<"a", ".", "t", "s">>
P_b    == <<"b", ".", "p", "y">>
P_sc   == <<"s", "/", "c", ".", "t", "s">>
P_s_c  == <<"s", "_", "c", ".", "t", "s">>
P_json == <<"m", ".", "j", "s", "o", "n">>

\* The files of the workspace, in the order a scan lists them.
WorkspaceFiles == <<P_a, P_b, P_json, P_sc, P_s_c>>

Paths == {WorkspaceFiles[i] : i \in 1..Len(WorkspaceFiles)}

\* Arguments callers hand to updateDocumentation: not always normalized.
RawInputs == {P_a, <<".", "/">> \o P_b, <<"s", "\\", "c", ".", "t", "s">>, P_s_c}

Min(a, b) == IF a < b THEN a ELSE b

MatchAt(s, i, pat) ==
    /\ i >= 1
    /\ i + Len(pat) - 1 <= Len(s)
    /\ \A k \in 1..Len(pat) : s[i + k - 1] = pat[k]

StartsWith(s, pat) == MatchAt(s, 1, pat)

EndsWith(s, pat) == MatchAt(s, Len(s) - Len(pat) + 1, pat)

WordChars ==
    {"a", "b", "c", "d", "e", "f", "g", "h", "i", "j", "k", "l", "m", "n", "o",
     "p", "q", "r", "s", "t", "u", "v", "w", "x", "y", "z", "_",
     "0", "1", "2", "3", "4", "5", "6", "7", "8", "9"}

IsWordAt(s, i) == i >= 1 /\ i <= Len(s) /\ s[i] \in WordChars

\* \b between positions i-1 and i of s.
WordBoundary(s, i) == IsWordAt(s, i - 1) # IsWordAt(s, i)

\* /\bpat\b/ when left and right, /pat\b/ when only right.
MatchesWord(s, pat, left) ==
    \E i \in 1..Len(s) :
        /\ MatchAt(s, i, pat)
        /\ left => WordBoundary(s, i)
        /\ WordBoundary(s, i + Len(pat))

IsSep(c) == c = "/" \/ c = "\\"

\* /docs[\\\/](files|html)[\\\/]/
MatchesDocsDir(s) ==
    \E i \in 1..Len(s) :
        /\ MatchAt(s, i, <<"d", "o", "c", "s">>)
        /\ i + 4 <= Len(s) /\ IsSep(s[i + 4])
        /\ \E sub \in {<<"f", "i", "l", "e", "s">>, <<"h", "t", "m", "l">>} :
              /\ MatchAt(s, i + 5, sub)
              /\ i + 5 + Len(sub) <= Len(s)
              /\ IsSep(s[i + 5 + Len(sub)])

ReplaceBackslashes(s) == [i \in 1..Len(s) |-> IF s[i] = "\\" THEN "/" ELSE s[i]]

\* DocManager.normalizePath, for a path that is not absolute.
normalizePath(filePath) ==
    LET fwd == ReplaceBackslashes(filePath)
    IN  IF StartsWith(fwd, <<".", "/">>) THEN SubSeq(fwd, 3, Len(fwd)) ELSE fwd

IGNORED_PATTERNS(s) ==
    \/ EndsWith(s, <<".", "j", "s", "o", "n">>)
    \/ MatchesDocsDir(s)
    \/ EndsWith(s, <<".", "l", "o", "g">>)
    \/ EndsWith(s, <<".", "l", "o", "c", "k">>)
    \/ MatchesWord(s, <<"n", "o", "d", "e", "_", "m", "o", "d", "u", "l", "e", "s">>, TRUE)
    \/ MatchesWord(s, <<".", "g", "i", "t">>, FALSE)
    \/ MatchesWord(s, <<"d", "i", "s", "t">>, TRUE)
    \/ EndsWith(s, <<"c", "a", "t", "d", "o", "c", ".", "t", "r", "e", "e", ".", "j", "s", "o", "n">>)

shouldIgnoreFile(relativePath) ==
    LET normalizedPath == normalizePath(relativePath)
    IN  \/ StartsWith(normalizedPath, <<"n", "o", "d", "e", "_", "m", "o", "d", "u", "l", "e", "s", "/">>)
        \/ StartsWith(normalizedPath, <<".", "g", "i", "t", "/">>)
        \/ StartsWith(normalizedPath, <<"d", "o", "c", "s", "/">>)
        \/ IGNORED_PATTERNS(normalizedPath)

\* The name of the per-file artifact docs/files/<safeBaseName>.json.
safeBaseName(p) == [i \in 1..Len(p) |-> IF IsSep(p[i]) THEN "_" ELSE p[i]]


(***************************************************************************)
(* Program constants, in the units of the model.                           *)
(***************************************************************************)
MAX_CONCURRENT_GENERATIONS == 3

\* debounce(..., 1000): the watcher's debounce window, in seconds.
DebounceWait == 1

\* debounceSave's setTimeout(..., 2000), in seconds.
SaveWait == 2

NoTimer == -1

(***************************************************************************)
(* Bounds of the model.                                                    *)
(***************************************************************************)
\* Filesystem changes and API calls the environment makes.
MaxEnv == 2

\* The same, in the runs without regenerateAllDocs.
MaxEnvDrain == 3

VARIABLES
    disk,               \* the workspace: path -> "absent" | "empty" | "text"
    processingQueue,    \* DocManager.processingQueue
    isProcessingQueue,  \* DocManager.isProcessingQueue
    loopAt,             \* where the drain loop is suspended: "idle" | "batch" | "delay"
    promises,           \* the generation calls of the batch the drain loop awaits
    files,              \* projectDocs.files: path -> "none" | "current" | "outdated"
    artifacts,          \* names of the files present under docs/files
    persisted,          \* docs.json against the store: path -> "none" | "same" | "old"
    timeout,            \* debounce's timer: NoTimer or the seconds left
    timeoutArgs,        \* the arguments captured by the pending `later`
    saveTimeout,        \* DocManager.saveTimeout: NoTimer or the seconds left
    scans,              \* glob scans in progress: the forceRegenerate flag of each
    notify,             \* the change of each path the watcher has yet to report
    refused,            \* pending paths whose repeated enqueue addToQueue refused
    owed,               \* paths with an event delivered and no handler run since
    envLeft,            \* environment steps left
    fileContent,        \* treesitter: the readable source files, path -> content
    cache,              \* treesitter: ProjectCache.files, path -> file_hash
    fileStatus,         \* treesitter: the last call of hasFileChanged, if any
    sources,            \* treesitter: the source files under rootDir, path -> content
    treeFile,           \* treesitter: <rootDir>.tree.json as parsed, if it exists
    cacheFile,          \* treesitter: the files of .<rootDir>.cache.json, path -> file_hash
    scannedSources,     \* the source files as the last scan found them, if any
    scan,               \* the last run of generateDirectoryTreeJson, if any
    editsLeft,          \* changes of the source files left
    syntax,             \* treesitter: the syntax tree parseFile returned, if any
    structure,          \* treesitter: what extractStructure made of it, if anything
    storeKeys,          \* DocManager: projectDocs.files as written, key to record's path
    queueKeys,          \* DocManager: processingQueue as written, the strings pushed
    saved,              \* the caller whose saveDocs wrote docs.json in the last step, or "none"
    regenerated,        \* what the last regenerateAllDocs returned, if any has returned
    watcher,            \* directoryWatcher: "open", "closing" (close() awaited) or "closed"
    jsonText,           \* the text of docs.json or of the cache file, if the file exists
    loaded,             \* what loadDocs or loadCache made of it, if called
    diffs,              \* treesitter: what the last getDiffs returned, if any
    runningKeys,        \* DocManager: the arguments of the calls of the batch in flight
    isRunning,          \* monitorDirectoryChanges: the flag of its interval callback
    monitorAt,          \* the calls of the interval callback that await their scan
    skipped,            \* a tick returned at once since the last scan started
    ended               \* how the last call of the interval callback ended

docVars ==
    <<disk, processingQueue, isProcessingQueue, loopAt, promises, files, artifacts,
      persisted, timeout, timeoutArgs, saveTimeout, scans, notify, refused, owed, envLeft,
      saved, regenerated, watcher>>

hashVars == <<fileContent, cache, fileStatus, diffs>>

monitorVars == <<isRunning, monitorAt, skipped, ended>>

scanVars == <<sources, treeFile, cacheFile, scannedSources, scan, editsLeft, monitorVars>>

extractVars == <<syntax, structure>>

treeVars == <<hashVars, scanVars, extractVars>>

keyVars == <<storeKeys, queueKeys, runningKeys>>

loadVars == <<jsonText, loaded>>

vars == <<docVars, treeVars, keyVars, loadVars>>

(***************************************************************************)
(* The DocManager object as a record, so that the methods compose.         *)
(***************************************************************************)
Self ==
    [queue |-> processingQueue, isProc |-> isProcessingQueue, loopAt |-> loopAt,
     promises |-> promises, files |-> files, artifacts |-> artifacts,
     persisted |-> persisted, saveTimeout |-> saveTimeout, refused |-> refused,
     saved |-> "none"]

Becomes(m) ==
    /\ processingQueue' = m.queue
    /\ isProcessingQueue' = m.isProc
    /\ loopAt' = m.loopAt
    /\ promises' = m.promises
    /\ files' = m.files
    /\ artifacts' = m.artifacts
    /\ persisted' = m.persisted
    /\ saveTimeout' = m.saveTimeout
    /\ refused' = m.refused
    /\ saved' = m.saved

Range(s) == {s[i] : i \in 1..Len(s)}

\* F applied to the value of x: sequencing of two steps of a method, the
\* first evaluated once.
Then(x, F(_)) == CHOOSE r \in {F(v) : v \in {x}} : TRUE

\* docs.json no longer holds the record of n once the store's record changes.
Diverge(persist, n) == [persist EXCEPT ![n] = IF @ = "same" THEN "old" ELSE @]

\* A save timer that is not restarted while it is pending.
debounceSaveNoRestart(this) ==
    Then(this, LAMBDA m :
        IF m.saveTimeout # NoTimer THEN m ELSE [m EXCEPT !.saveTimeout = SaveWait])

debounceSave(this) ==
    Then(this, LAMBDA m :
        [m EXCEPT !.saveTimeout = SaveWait])

saveDocs(this, caller) ==
    Then(this, LAMBDA m :
        [m EXCEPT !.saveTimeout = NoTimer,
                  !.saved = caller,
                  !.persisted = [p \in Paths |-> IF m.files[p] = "none" THEN "none" ELSE "same"]])

\* removeDocumentation without its closing debounceSave.
removeDocumentationNoSave(this, relativePath) ==
    Then(this, LAMBDA m :
        LET n == normalizePath(relativePath)
        IN  IF m.files[n] # "none"
            THEN [m EXCEPT !.files[n] = "none",
                           !.persisted = Diverge(m.persisted, n),
                           !.artifacts = @ \ {safeBaseName(n)}]
            ELSE m)

removeDocumentation(this, relativePath) ==
    Then(this, LAMBDA m :
        LET n == normalizePath(relativePath)
        IN  IF m.files[n] # "none"
            THEN debounceSave([m EXCEPT !.files[n] = "none",
                                        !.persisted = Diverge(m.persisted, n),
                                        !.artifacts = @ \ {safeBaseName(n)}])
            ELSE m)

\* generateDocumentation from `this.projectDocs.files[...] = doc` to its return.
storeDocumentation(this, n, mtimeOld) ==
    Then(this, LAMBDA m :
        debounceSave([m EXCEPT !.files[n] = IF mtimeOld THEN "outdated" ELSE "current",
                               !.persisted = Diverge(m.persisted, n),
                               !.artifacts = @ \cup {safeBaseName(n)}]))

\* A generation call of the batch: what it read on disk when it started, how
\* far it got, whether it called the generation service, what the service
\* answered.
Promise(n, state, read) ==
    [path |-> n, state |-> state, read |-> read, called |-> state = "svc",
     mtimeOld |-> FALSE, summary |-> "none"]

\* generateDocumentation without its existsSync test: readFileSync throws for
\* a missing file and the catch re-throws, the store untouched.
generateDocumentationNoExistsTest(this, d, relativePath) ==
    Then(this, LAMBDA m :
        LET n == normalizePath(relativePath)
        IN  CASE d[n] = "absent" ->
                   [m EXCEPT !.promises = Append(@, Promise(n, "fail", "absent"))]
              [] d[n] = "empty" ->
                   [removeDocumentation(m, n) EXCEPT
                        !.promises = Append(@, Promise(n, "fail", "empty"))]
              [] OTHER ->
                   [m EXCEPT !.promises = Append(@, Promise(n, "svc", "text"))])

\* generateDocumentation up to its first await: the call runs this far
\* inside batch.map.
generateDocumentation(this, d, relativePath) ==
    Then(this, LAMBDA m :
        LET n == normalizePath(relativePath)
        IN  CASE d[n] = "absent" ->
                   [removeDocumentation(m, n) EXCEPT
                        !.promises = Append(@, Promise(n, "fail", "absent"))]
              [] d[n] = "empty" ->
                   [removeDocumentation(m, n) EXCEPT
                        !.promises = Append(@, Promise(n, "fail", "empty"))]
              [] OTHER ->
                   [m EXCEPT !.promises = Append(@, Promise(n, "svc", "text"))])

RECURSIVE MapBatch(_, _, _)
MapBatch(this, d, batch) ==
    Then(this, LAMBDA m :
        IF batch = <<>> THEN m
        ELSE Then(generateDocumentation(m, d, Head(batch)),
                  LAMBDA m1 : MapBatch(m1, d, Tail(batch))))

\* A loop that goes on at the first call that settles (Promise.race).
AnySettled(ps) == \E i \in 1..Len(ps) : ps[i].state \in {"ok", "fail"}

\* Promise.all(promises) is fulfilled: no call of the batch rejects.
Settled(ps) == \A i \in 1..Len(ps) : ps[i].state \in {"ok", "fail"}

\* A drain loop that ends with debounceSave in place of saveDocs.
FinishLoopDebounced(this) ==
    Then(this, LAMBDA m :
        debounceSave([m EXCEPT !.isProc = FALSE, !.loopAt = "idle"]))

\* The end of processDocumentationQueue, after the while loop.
FinishLoop(this) ==
    Then(this, LAMBDA m :
        saveDocs([m EXCEPT !.isProc = FALSE, !.loopAt = "idle"], "drain"))

\* The batch and its promises are locals of one iteration of the loop.
EndBatch(this) ==
    Then(this, LAMBDA m :
        [m EXCEPT !.promises = <<>>])

\* A loop that ends after its batch without looking at the queue again.
AfterBatchStopsEarly(this) ==
    Then(this, LAMBDA m : FinishLoop(EndBatch(m)))

\* After `await Promise.all(promises)`.
AfterBatch(this) ==
    Then(this, LAMBDA m :
        IF Len(m.queue) > 0 THEN [EndBatch(m) EXCEPT !.loopAt = "delay"]
        ELSE FinishLoop(EndBatch(m)))

\* A drain loop that takes the whole queue as one batch.
BatchSizeWholeQueue(queue) == Len(queue)

\* A drain loop that takes one path at a time.
BatchSizeOne(queue) == 1

BatchSize(queue) == Min(MAX_CONCURRENT_GENERATIONS, Len(queue))

\* The while loop from its condition to `await Promise.all(promises)`.
LoopHead(this, d) ==
    Then(this, LAMBDA m :
        IF Len(m.queue) > 0
        THEN LET batchSize == BatchSize(m.queue)
                 batch == SubSeq(m.queue, 1, batchSize)
                 m1 == MapBatch([m EXCEPT !.queue = SubSeq(@, batchSize + 1, Len(@)),
                                          !.refused = @ \ Range(batch)],
                                d, batch)
             IN  [m1 EXCEPT !.loopAt = "batch"]
        ELSE FinishLoop(m))

\* The continuation of `await Promise.all(promises)` when every call of the
\* batch was rejected before its first await: it runs once the synchronous
\* code of the turn has returned.
Microtasks(this) ==
    Then(this, LAMBDA m :
        IF m.loopAt = "batch" /\ Settled(m.promises) THEN AfterBatch(m) ELSE m)

\* processDocumentationQueue without its isProcessingQueue test.
processDocumentationQueueReentrant(this, d) ==
    Then(this, LAMBDA m :
        IF Len(m.queue) = 0 THEN m
        ELSE LoopHead([m EXCEPT !.isProc = TRUE], d))

processDocumentationQueue(this, d) ==
    Then(this, LAMBDA m :
        IF m.isProc THEN m
        ELSE IF Len(m.queue) = 0 THEN m
        ELSE LoopHead([m EXCEPT !.isProc = TRUE], d))

\* addToQueue without its includes() test.
addToQueueNoTest(this, d, relativePath) ==
    Then(this, LAMBDA m :
        processDocumentationQueue([m EXCEPT !.queue = Append(@, normalizePath(relativePath))], d))

\* addToQueue that also refuses a path whose generation is in flight.
addToQueueUnlessInFlight(this, d, relativePath) ==
    Then(this, LAMBDA m :
        LET normalizedPath == normalizePath(relativePath)
            running == {m.promises[i].path :
                           i \in {k \in 1..Len(m.promises) : m.promises[k].state \in {"svc", "git"}}}
        IN  IF normalizedPath \notin Range(m.queue) /\ normalizedPath \notin running
            THEN processDocumentationQueue([m EXCEPT !.queue = Append(@, normalizedPath)], d)
            ELSE [m EXCEPT !.refused = @ \cup {normalizedPath}])

addToQueue(this, d, relativePath) ==
    Then(this, LAMBDA m :
        LET normalizedPath == normalizePath(relativePath)
        IN  IF normalizedPath \notin Range(m.queue)
            THEN processDocumentationQueue([m EXCEPT !.queue = Append(@, normalizedPath)], d)
            ELSE [m EXCEPT !.refused = @ \cup {normalizedPath}])

\* A drain loop that gives up the whole batch at the first failed call.
SettlePromiseFailFast(this, i, state) ==
    Then(this, LAMBDA m :
        IF state = "fail"
        THEN AfterBatch([m EXCEPT !.promises =
                            [k \in 1..Len(m.promises) |-> [m.promises[k] EXCEPT !.state =
                                IF k = i \/ @ \in {"svc", "git"} THEN "fail" ELSE @]]])
        ELSE LET m1 == [m EXCEPT !.promises[i].state = state]
             IN  IF m1.loopAt = "batch" /\ Settled(m1.promises) THEN AfterBatch(m1) ELSE m1)

\* A drain loop without the catch around each call: the first failure rejects
\* Promise.all and processDocumentationQueue with it, before the loop resets
\* isProcessingQueue.
SettlePromiseUncaught(this, i, state) ==
    Then(this, LAMBDA m :
        LET m1 == [m EXCEPT !.promises[i].state = state]
        IN  IF state = "fail" THEN [m1 EXCEPT !.loopAt = "rejected"]
            ELSE IF m1.loopAt = "batch" /\ Settled(m1.promises) THEN AfterBatch(m1) ELSE m1)

\* A generation call settles; the drain loop resumes once all of the batch have.
SettlePromise(this, i, state) ==
    Then(this, LAMBDA m :
        LET m1 == [m EXCEPT !.promises[i].state = state]
        IN  IF m1.loopAt = "batch" /\ Settled(m1.promises) THEN AfterBatch(m1) ELSE m1)

(***************************************************************************)
(* The state after construction and initialize(), once the background     *)
(* scan has found every file of the workspace documented and docs.json     *)
(* has been written: the store as loaded, the watcher started, no work     *)
(* pending.                                                                *)
(***************************************************************************)
\* The files the environment may leave empty.
Truncated == {P_b}

LoadedDocs == {p \in Paths : ~shouldIgnoreFile(p)}

Constructed ==
    /\ disk = [p \in Paths |-> "text"]
    /\ processingQueue = <<>>
    /\ isProcessingQueue = FALSE
    /\ loopAt = "idle"
    /\ promises = <<>>
    /\ files = [p \in Paths |-> IF p \in LoadedDocs THEN "current" ELSE "none"]
    /\ artifacts = {safeBaseName(p) : p \in LoadedDocs}
    /\ persisted = [p \in Paths |-> IF p \in LoadedDocs THEN "same" ELSE "none"]
    /\ timeout = NoTimer
    /\ timeoutArgs = <<>>
    /\ saveTimeout = NoTimer
    /\ scans = {}
    /\ notify = [p \in Paths |-> "none"]
    /\ refused = {}
    /\ owed = {}
    /\ saved = "none"
    /\ regenerated = <<>>
    /\ watcher = "open"

\* The structure cache of treesitter.ts, not in use.
HashIdle ==
    /\ fileContent = <<>>
    /\ cache = <<>>
    /\ fileStatus = <<>>
    /\ diffs = <<>>

\* No tree scan has run and none runs.
\* monitorDirectoryChanges has set its interval and no tick has fired.
MonitorIdle ==
    /\ isRunning = FALSE
    /\ monitorAt = <<>>
    /\ skipped = FALSE
    /\ ended = "none"

ScanIdle ==
    /\ MonitorIdle
    /\ sources = <<>>
    /\ treeFile = <<>>
    /\ cacheFile = <<>>
    /\ scannedSources = <<>>
    /\ scan = <<>>
    /\ editsLeft = 0

\* No file is being parsed.
ExtractIdle ==
    /\ syntax = <<>>
    /\ structure = <<>>

TreeIdle == HashIdle /\ ScanIdle /\ ExtractIdle

\* The strings of the keys are not followed.
KeyIdle ==
    /\ storeKeys = <<>>
    /\ queueKeys = <<>>
    /\ runningKeys = <<>>

\* No persisted JSON file is being loaded.
LoadIdle ==
    /\ jsonText = <<>>
    /\ loaded = <<>>

Init == Constructed /\ TreeIdle /\ KeyIdle /\ LoadIdle /\ envLeft = MaxEnv

(***************************************************************************)
(* The environment: the filesystem and the callers of the public methods.  *)
(***************************************************************************)
\* The `ignored` option of chokidar.watch, on the paths of the workspace
\* (none is hidden or under docs, node_modules, .git or dist).
WatcherIgnores(p) == IGNORED_PATTERNS(p)

\* A file is created or rewritten.
FsWrite(p, content) ==
    /\ envLeft > 0
    /\ envLeft' = envLeft - 1
    /\ disk' = [disk EXCEPT ![p] = content]
    /\ notify' = IF WatcherIgnores(p) \/ watcher = "closed" THEN notify
                 ELSE [notify EXCEPT ![p] = IF disk[p] = "absent" THEN "add" ELSE "change"]
    /\ files' = [files EXCEPT ![p] = IF @ = "current" THEN "outdated" ELSE @]
    /\ promises' = [i \in 1..Len(promises) |->
                      IF promises[i].path = p /\ promises[i].state = "git"
                      THEN [promises[i] EXCEPT !.mtimeOld = TRUE] ELSE promises[i]]
    /\ saved' = "none"
    /\ UNCHANGED <<treeVars, keyVars, loadVars, regenerated, watcher, processingQueue, isProcessingQueue, loopAt, artifacts, persisted,
                   timeout, timeoutArgs, saveTimeout, scans, refused, owed>>

FsDelete(p) ==
    /\ envLeft > 0
    /\ disk[p] # "absent"
    /\ envLeft' = envLeft - 1
    /\ disk' = [disk EXCEPT ![p] = "absent"]
    /\ notify' = IF WatcherIgnores(p) \/ watcher = "closed" THEN notify
                 ELSE [notify EXCEPT ![p] = "unlink"]
    /\ saved' = "none"
    /\ UNCHANGED <<treeVars, keyVars, loadVars, regenerated, watcher, processingQueue, isProcessingQueue, loopAt, promises, files, artifacts,
                   persisted, timeout, timeoutArgs, saveTimeout, scans, refused, owed>>

\* debounce's executedFunction, called by the watcher's 'add', 'change' and
\* 'unlink' listeners.
WatcherEvent(p) ==
    /\ watcher # "closed"
    /\ notify[p] # "none"
    /\ notify' = [notify EXCEPT ![p] = "none"]
    /\ timeout' = DebounceWait
    /\ timeoutArgs' = <<p, notify[p]>>
    /\ owed' = owed \cup {p}
    /\ saved' = "none"
    /\ UNCHANGED <<treeVars, keyVars, loadVars, regenerated, watcher, disk, processingQueue, isProcessingQueue, loopAt, promises, files,
                   artifacts, persisted, saveTimeout, scans, refused, envLeft>>

\* A handler that queues the path of an add or change without looking at
\* the disk.
debouncedQueueAddNoExistsTest(this, d, filePath, eventType) ==
    Then(this, LAMBDA m :
        LET normalizedRelativePath == normalizePath(filePath)
        IN  IF shouldIgnoreFile(normalizedRelativePath) THEN m
            ELSE IF eventType = "unlink" THEN removeDocumentation(m, normalizedRelativePath)
            ELSE addToQueue(m, d, normalizedRelativePath))

\* The handler wrapped by debounce (the argument of debounce in the constructor).
debouncedQueueAdd(this, d, filePath, eventType) ==
    Then(this, LAMBDA m :
        LET normalizedRelativePath == normalizePath(filePath)
        IN  IF shouldIgnoreFile(normalizedRelativePath) THEN m
            ELSE IF eventType = "unlink" THEN removeDocumentation(m, normalizedRelativePath)
            ELSE IF d[normalizedRelativePath] # "absent"
                 THEN addToQueue(m, d, normalizedRelativePath)
                 ELSE removeDocumentation(m, normalizedRelativePath))

\* debounce's `later`, run by the timer.
DebounceFire ==
    /\ timeout = 0
    /\ timeout' = NoTimer
    /\ \E m \in {Microtasks(debouncedQueueAdd(Self, disk, timeoutArgs[1], timeoutArgs[2]))} :
          Becomes(m)
    /\ timeoutArgs' = <<>>
    /\ owed' = owed \ {timeoutArgs[1]}
    /\ UNCHANGED <<treeVars, keyVars, loadVars, regenerated, watcher, disk, scans, notify, envLeft>>

\* updateDocumentation, called by the user interface.
UpdateDocumentation(filePath) ==
    /\ envLeft > 0
    /\ envLeft' = envLeft - 1
    /\ \E m \in {Microtasks(addToQueue(Self, disk, normalizePath(filePath)))} : Becomes(m)
    /\ UNCHANGED <<treeVars, keyVars, loadVars, regenerated, watcher, disk, timeout, timeoutArgs, scans, notify, owed>>

\* initialize() again: generateAllDocsForWorkspace(false) up to the await of
\* the glob.
Initialize ==
    /\ envLeft > 0
    /\ FALSE \notin scans
    /\ envLeft' = envLeft - 1
    /\ scans' = scans \cup {FALSE}
    /\ saved' = "none"
    /\ UNCHANGED <<treeVars, keyVars, loadVars, regenerated, watcher, disk, processingQueue, isProcessingQueue, loopAt, promises, files,
                   artifacts, persisted, timeout, timeoutArgs, saveTimeout, notify, refused, owed>>

\* regenerateAllDocs up to the await of the glob inside
\* generateAllDocsForWorkspace(true).
RegenerateAllDocs ==
    /\ envLeft > 0
    /\ TRUE \notin scans
    /\ envLeft' = envLeft - 1
    /\ processingQueue' = <<>>
    /\ refused' = {}
    /\ scans' = scans \cup {TRUE}
    /\ saved' = "none"
    /\ UNCHANGED <<treeVars, keyVars, loadVars, regenerated, watcher, disk, isProcessingQueue, loopAt, promises, files, artifacts, persisted,
                   timeout, timeoutArgs, saveTimeout, notify, owed>>

\* A scan that skips the files with an up-to-date record even when forced.
shouldQueueUnlessCurrent(this, forceRegenerate, relativePath) ==
    this.files[relativePath] # "current"

\* shouldQueue in the loop of generateAllDocsForWorkspace.
shouldQueue(this, forceRegenerate, relativePath) ==
    forceRegenerate \/ this.files[relativePath] # "current"

\* The loop body of generateAllDocsForWorkspace for one file.
ScanFile(this, d, forceRegenerate, relativePath) ==
    Then(this, LAMBDA m :
        IF shouldQueue(m, forceRegenerate, relativePath)
        THEN addToQueue(m, d, relativePath)
        ELSE m)

\* The counters queued and skipped of the loop.
RECURSIVE ScanCounts(_, _, _, _)
ScanCounts(this, d, forceRegenerate, list) ==
    IF list = <<>> THEN [queued |-> 0, skipped |-> 0]
    ELSE Then(ScanFile(this, d, forceRegenerate, Head(list)), LAMBDA m1 :
            Then(ScanCounts(m1, d, forceRegenerate, Tail(list)), LAMBDA rest :
                IF shouldQueue(this, forceRegenerate, Head(list))
                THEN [rest EXCEPT !.queued = @ + 1]
                ELSE [rest EXCEPT !.skipped = @ + 1]))

RECURSIVE ScanFiles(_, _, _, _)
ScanFiles(this, d, forceRegenerate, list) ==
    Then(this, LAMBDA m :
        IF list = <<>> THEN m
        ELSE Then(ScanFile(m, d, forceRegenerate, Head(list)),
                  LAMBDA m1 : ScanFiles(m1, d, forceRegenerate, Tail(list))))

\* What the glob returns, filtered with shouldIgnoreFile.
validFiles(d) ==
    SelectSeq(WorkspaceFiles, LAMBDA f : d[f] # "absent" /\ ~shouldIgnoreFile(f))

\* generateAllDocsForWorkspace after the glob has answered.
ScanComplete(forceRegenerate) ==
    /\ forceRegenerate \in scans
    /\ scans' = scans \ {forceRegenerate}
    /\ \E m \in {Microtasks(debounceSave(ScanFiles(Self, disk, forceRegenerate,
                                                  validFiles(disk))))} : Becomes(m)
    /\ regenerated' =
          IF forceRegenerate
          THEN LET counts == ScanCounts(Self, disk, forceRegenerate, validFiles(disk))
               IN  <<[total |-> Len(validFiles(disk)), queued |-> counts.queued,
                      skipped |-> counts.skipped]>>
          ELSE regenerated
    /\ UNCHANGED <<treeVars, keyVars, loadVars, watcher, disk, timeout, timeoutArgs, notify, owed, envLeft>>

\* generateAllDocsForWorkspace when the glob fails.
ScanFails(forceRegenerate) ==
    /\ forceRegenerate \in scans
    /\ scans' = scans \ {forceRegenerate}
    /\ saved' = "none"
    /\ regenerated' =
          IF forceRegenerate THEN <<[total |-> 0, queued |-> 0, skipped |-> 0]>>
          ELSE regenerated
    /\ UNCHANGED <<treeVars, keyVars, loadVars, watcher, disk, processingQueue, isProcessingQueue, loopAt,
                   promises, files, artifacts, persisted, timeout, timeoutArgs, saveTimeout,
                   notify, refused, owed, envLeft>>

(***************************************************************************)
(* The generation calls in flight and the drain loop.                      *)
(***************************************************************************)
\* The answers of the generation service: a text, or none (response.text
\* empty or undefined).
Responses == {"text", "empty"}

\* generateDocumentation from the answer of generateContent to the await of
\* git.revparse: statSync throws for a file that is gone, and the catch
\* re-throws.
resumeAfterService(this, d, i, response) ==
    Then(this, LAMBDA m :
        IF d[m.promises[i].path] = "absent"
        THEN SettlePromise(m, i, "fail")
        ELSE [m EXCEPT !.promises[i].state = "git", !.promises[i].summary = response])

\* generateContent answers.
ServiceResolve(i, response) ==
    /\ i \in 1..Len(promises)
    /\ promises[i].state = "svc"
    /\ \E m \in {resumeAfterService(Self, disk, i, response)} : Becomes(m)
    /\ UNCHANGED <<treeVars, keyVars, loadVars, regenerated, watcher, disk, timeout, timeoutArgs, scans, notify, owed, envLeft>>

\* A failed call that takes the record of its path away.
ServiceRejectRemoves(i) ==
    /\ i \in 1..Len(promises)
    /\ promises[i].state = "svc"
    /\ \E m \in {SettlePromise(removeDocumentation(Self, promises[i].path), i, "fail")} : Becomes(m)
    /\ UNCHANGED <<treeVars, keyVars, loadVars, regenerated, watcher, disk, timeout, timeoutArgs, scans, notify, owed, envLeft>>

\* generateContent fails.
ServiceReject(i) ==
    /\ i \in 1..Len(promises)
    /\ promises[i].state = "svc"
    /\ \E m \in {SettlePromise(Self, i, "fail")} : Becomes(m)
    /\ UNCHANGED <<treeVars, keyVars, loadVars, regenerated, watcher, disk, timeout, timeoutArgs, scans, notify, owed, envLeft>>

\* git.revparse settles either way: the record is stored and the call
\* returns, the answer of the service a local that goes with it.
GitSettle(i) ==
    /\ i \in 1..Len(promises)
    /\ promises[i].state = "git"
    /\ \E m \in {SettlePromise(storeDocumentation([Self EXCEPT !.promises[i].summary = "none"],
                                                   promises[i].path,
                                                   promises[i].mtimeOld), i, "ok")} :
          Becomes(m)
    /\ UNCHANGED <<treeVars, keyVars, loadVars, regenerated, watcher, disk, timeout, timeoutArgs, scans, notify, owed, envLeft>>

\* The 200 ms pause between batches ends.
DelayFire ==
    /\ loopAt = "delay"
    /\ \E m \in {Microtasks(LoopHead(Self, disk))} : Becomes(m)
    /\ UNCHANGED <<treeVars, keyVars, loadVars, regenerated, watcher, disk, timeout, timeoutArgs, scans, notify, owed, envLeft>>

\* debounceSave's timer runs saveDocs.
SaveFire ==
    /\ saveTimeout = 0
    /\ \E m \in {saveDocs(Self, "timer")} : Becomes(m)
    /\ UNCHANGED <<treeVars, keyVars, loadVars, regenerated, watcher, disk, timeout, timeoutArgs, scans, notify, owed, envLeft>>

\* A shutdown that leaves the save to the timer.
shutdownDebounced(this) ==
    Then(this, LAMBDA m : debounceSave(m))

\* shutdown, once directoryWatcher.close() has resolved.
shutdown(this) ==
    Then(this, LAMBDA m : saveDocs(m, "shutdown"))

\* shutdown() up to the await of directoryWatcher.close().
ShutdownBegin ==
    /\ envLeft > 0
    /\ watcher = "open"
    /\ envLeft' = envLeft - 1
    /\ watcher' = "closing"
    /\ saved' = "none"
    /\ UNCHANGED <<treeVars, keyVars, loadVars, regenerated, disk, processingQueue, isProcessingQueue,
                   loopAt, promises, files, artifacts, persisted, timeout, timeoutArgs,
                   saveTimeout, scans, notify, refused, owed>>

\* close() resolves: no event is delivered any more, and shutdown goes on
\* to saveDocs and returns.
ShutdownEnd ==
    /\ watcher = "closing"
    /\ watcher' = "closed"
    /\ notify' = [p \in Paths |-> "none"]
    /\ \E m \in {shutdown(Self)} : Becomes(m)
    /\ UNCHANGED <<treeVars, keyVars, loadVars, regenerated, disk, timeout, timeoutArgs, scans, owed, envLeft>>

\* One second passes; a timer that is due runs first.
Tick ==
    /\ timeout # 0 /\ saveTimeout # 0
    /\ timeout > 0 \/ saveTimeout > 0
    /\ timeout' = IF timeout > 0 THEN timeout - 1 ELSE timeout
    /\ saveTimeout' = IF saveTimeout > 0 THEN saveTimeout - 1 ELSE saveTimeout
    /\ saved' = "none"
    /\ UNCHANGED <<treeVars, keyVars, loadVars, regenerated, watcher, disk, processingQueue, isProcessingQueue, loopAt, promises, files,
                   artifacts, persisted, timeoutArgs, scans, notify, refused, owed, envLeft>>

Next ==
    \/ \E p \in Paths : FsWrite(p, "text")
    \/ \E p \in Truncated : FsWrite(p, "empty")
    \/ \E p \in Paths : FsDelete(p)
    \/ \E p \in Paths : WatcherEvent(p)
    \/ DebounceFire
    \/ \E raw \in RawInputs : UpdateDocumentation(raw)
    \/ Initialize
    \/ RegenerateAllDocs
    \/ \E force \in BOOLEAN : ScanComplete(force)
    \/ \E force \in BOOLEAN : ScanFails(force)
    \/ ShutdownBegin
    \/ ShutdownEnd
    \/ \E i \in 1..MAX_CONCURRENT_GENERATIONS, response \in Responses : ServiceResolve(i, response)
    \/ \E i \in 1..MAX_CONCURRENT_GENERATIONS : ServiceReject(i)
    \/ \E i \in 1..MAX_CONCURRENT_GENERATIONS : GitSettle(i)
    \/ DelayFire
    \/ SaveFire
    \/ Tick

Spec == Init /\ [][Next]_vars

(***************************************************************************)
(* The pipeline without regenerateAllDocs, with the scheduling Node        *)
(* guarantees: a timer that is due runs, a continuation that is ready      *)
(* runs, time passes; and every call to the generation service and to git  *)
(* settles, the service with a text when it answers.                       *)
(***************************************************************************)
InitDrain == Constructed /\ TreeIdle /\ KeyIdle /\ LoadIdle /\ envLeft = MaxEnvDrain

NextDrain ==
    \/ \E p \in Paths : FsWrite(p, "text")
    \/ \E p \in Truncated : FsWrite(p, "empty")
    \/ \E p \in Paths : FsDelete(p)
    \/ \E p \in Paths : WatcherEvent(p)
    \/ DebounceFire
    \/ \E raw \in RawInputs : UpdateDocumentation(raw)
    \/ Initialize
    \/ ScanComplete(FALSE)
    \/ ScanFails(FALSE)
    \/ \E i \in 1..MAX_CONCURRENT_GENERATIONS : ServiceResolve(i, "text")
    \/ \E i \in 1..MAX_CONCURRENT_GENERATIONS : ServiceReject(i)
    \/ \E i \in 1..MAX_CONCURRENT_GENERATIONS : GitSettle(i)
    \/ DelayFire
    \/ SaveFire
    \/ Tick

ServiceSettles(i) == ServiceResolve(i, "text") \/ ServiceReject(i)

\* Weak fairness of each step of the scheduler, with ENABLED written out as
\* the guard of the step (each of these steps changes the state whenever its
\* guard holds).
Scheduling ==
    /\ []<>(timeout # 0) \/ []<><<DebounceFire>>_vars
    /\ []<>(saveTimeout # 0) \/ []<><<SaveFire>>_vars
    /\ WF_vars(Tick)
    /\ []<>(loopAt # "delay") \/ []<><<DelayFire>>_vars
    /\ []<>(FALSE \notin scans) \/ []<><<ScanComplete(FALSE)>>_vars
    /\ \A i \in 1..MAX_CONCURRENT_GENERATIONS :
          /\ \/ []<>(~(i <= Len(promises) /\ promises[i].state = "svc"))
             \/ []<><<ServiceSettles(i)>>_vars
          /\ \/ []<>(~(i <= Len(promises) /\ promises[i].state = "git"))
             \/ []<><<GitSettle(i)>>_vars

FairSpec == InitDrain /\ [][NextDrain]_vars /\ Scheduling


(***************************************************************************)
(* The pending queue and the drain loop.                                   *)
(***************************************************************************)
InFlight == {i \in 1..Len(promises) : promises[i].state \in {"svc", "git"}}

\* C1: the pending queue never holds a path twice, and addToQueue of a path
\* that is pending leaves the queue as it is.
C1_QueueHasNoDuplicates ==
    /\ \A i, j \in 1..Len(processingQueue) :
          i # j => processingQueue[i] # processingQueue[j]
    /\ \A raw \in RawInputs \cup Paths :
          normalizePath(raw) \in Range(processingQueue)
              => addToQueue(Self, disk, raw).queue = processingQueue

\* addToQueue has refused a path that is still pending.
C1_Witness ==
    \E p \in refused : p \in Range(processingQueue)

\* C2: at most MAX_CONCURRENT_GENERATIONS generation calls of the drain loop
\* are in flight, and the batch the loop awaits has 1 to
\* MAX_CONCURRENT_GENERATIONS paths.
C2_BatchIsBounded ==
    /\ Cardinality(InFlight) <= MAX_CONCURRENT_GENERATIONS
    /\ loopAt = "batch" =>
          Len(promises) >= 1 /\ Len(promises) <= MAX_CONCURRENT_GENERATIONS
    /\ loopAt # "batch" => promises = <<>>

\* A full batch in flight while another path has been enqueued behind it.
C2_Witness ==
    /\ loopAt = "batch"
    /\ Cardinality(InFlight) = MAX_CONCURRENT_GENERATIONS
    /\ Len(processingQueue) > 0


\* The call has left the batch in this step: it settled, or the batch ended.
Leaves(i, state) ==
    /\ promises[i].state = state
    /\ ~(Len(promises') >= i /\ promises'[i] = promises[i])
    /\ ~(Len(promises') >= i /\ promises'[i] = [promises[i] EXCEPT !.mtimeOld = TRUE])

\* The store holds a record for p that this step wrote: docs.json does not
\* hold it yet, unless the drain loop ended in this step and saved the store.
NewRecord(p) ==
    /\ files'[p] # "none"
    /\ safeBaseName(p) \in artifacts'
    /\ persisted'[p] # "same" \/ (isProcessingQueue /\ ~isProcessingQueue')

\* C3: a call of the batch whose generation succeeded (the service answered
\* and the file was still there) gets its record stored whatever happens to
\* the other calls of the batch, and a call that fails writes no record.
C3_BatchIsolation ==
    [][\A i \in 1..Len(promises) :
          /\ Leaves(i, "git") => NewRecord(promises[i].path)
          /\ Leaves(i, "svc") /\ ~(Len(promises') >= i /\ promises'[i].state = "git")
                => files'[promises[i].path] = files[promises[i].path]]_vars

\* A batch of three: one call failed, another succeeded and its record is stored.
C3_Witness ==
    /\ Len(promises) = MAX_CONCURRENT_GENERATIONS
    /\ \E i, j \in 1..Len(promises) :
          /\ promises[i].state = "fail"
          /\ promises[j].state = "ok"
          /\ files[promises[j].path] # "none"
          /\ persisted[promises[j].path] # "same"


\* C4: without regenerateAllDocs and with every generation call settling,
\* every pending path is eventually popped (its generation starts in the
\* same step) and a drain loop that is running eventually ends with
\* isProcessingQueue false, whichever calls fail.
C4_QueueDrains ==
    /\ \A p \in Paths :
          (p \in Range(processingQueue)) ~> (p \notin Range(processingQueue))
    /\ isProcessingQueue ~> ~isProcessingQueue

\* A call of the batch has failed while a path is still pending.
C4_Witness ==
    /\ \E i \in 1..Len(promises) : promises[i].state = "fail"
    /\ Len(processingQueue) > 0
    /\ isProcessingQueue

(***************************************************************************)
(* The watcher's events and the debounced handler.                         *)
(***************************************************************************)
\* C5: a pending debounced event for a path is not cancelled or replaced by
\* an event for another path: while the timer is pending, the arguments it
\* will run the handler with stay those of the same path.
C5_DebouncePerPath ==
    [][timeoutArgs # <<>> /\ timeoutArgs' # <<>> => timeoutArgs'[1] = timeoutArgs[1]]_vars

\* C6: a path with events delivered and no run of the handler since has one
\* run of the handler scheduled for it, at most one window ahead.
C6_BurstRunsHandlerOnce ==
    \A p \in owed :
        /\ timeoutArgs # <<>>
        /\ timeoutArgs[1] = p
        /\ timeout \in 0..DebounceWait

\* C7: the delivery of an unlink event removes the record of the path in the
\* same step.
C7_UnlinkRemovesImmediately ==
    [][\A p \in Paths :
          notify[p] = "unlink" /\ notify'[p] = "none" /\ watcher' = watcher
              => files'[p] = "none"]_vars

\* Nothing is pending: the watcher open and every event delivered, no timer
\* set, no scan and no drain loop running.
Quiescent ==
    /\ watcher = "open"
    /\ \A p \in Paths : notify[p] = "none"
    /\ timeout = NoTimer
    /\ saveTimeout = NoTimer
    /\ scans = {}
    /\ ~isProcessingQueue
    /\ processingQueue = <<>>

\* C8: once nothing is pending, a non-ignored file that is deleted (every
\* file exists at the start, so its unlink event has been delivered) has no
\* record in the store and no artifact under docs/files.
C8_DeletedFileLeavesNothing ==
    Quiescent =>
        \A p \in Paths :
            disk[p] = "absent" /\ ~shouldIgnoreFile(p) =>
                files[p] = "none" /\ safeBaseName(p) \notin artifacts

\* The drain loop pops a batch in this step, after the pause between batches.
StartsBatch ==
    /\ loopAt = "delay"
    /\ scans' = scans
    /\ Len(processingQueue') < Len(processingQueue)

\* C9: when the drain loop starts the generation of a pending path whose
\* file is gone, the store has no record for the path after the step and the
\* call is a failed one that did not call the generation service, while
\* every path of the same batch whose file has text has its call to the
\* service in flight.
C9_MissingFileAtGeneration ==
    [][StartsBatch =>
        \A p \in Range(SubSeq(processingQueue, 1, BatchSize(processingQueue))) :
            /\ disk[p] = "absent" =>
                  /\ files'[p] = "none"
                  /\ \A i \in 1..Len(promises') :
                        promises'[i].path = p =>
                            ~promises'[i].called /\ promises'[i].state = "fail"
            /\ disk[p] = "text" =>
                  \E i \in 1..Len(promises') :
                      /\ promises'[i].path = p
                      /\ promises'[i].called
                      /\ promises'[i].state = "svc"]_vars

\* A batch holds a call that found its file gone, the record removed, and a
\* call to the service in flight.
C9_Witness ==
    \E i, j \in 1..Len(promises) :
        /\ promises[i].read = "absent"
        /\ promises[i].state = "fail"
        /\ files[promises[i].path] = "none"
        /\ promises[j].state = "svc"

(***************************************************************************)
(* treesitter.ts: change detection against the structure cache.            *)
(***************************************************************************)
\* The longest file content.
MaxContentLen == 1

\* The number of distinct digests.
DigestSpace == 2

Chars == {"a", "b"}

Contents == UNION {[1..n -> Chars] : n \in 0..MaxContentLen}

CharCode(c) == IF c = "a" THEN 1 ELSE 2

RECURSIVE Checksum(_)
Checksum(content) ==
    IF content = <<>> THEN 0
    ELSE (CharCode(Head(content)) + Checksum(Tail(content))) % DigestSpace

HexDigits == <<"0", "1", "2", "3", "4", "5", "6", "7", "8", "9">>

\* The MD5 digest in hex, on a digest space small enough for two contents
\* to collide; never the empty string.
generateHash(content) == <<"d", HexDigits[Checksum(content) + 1]>>

Digests == {generateHash(c) : c \in Contents}

\* hasFileChanged with the missing-entry test left out.
hasFileChangedEntryOnly(filePath, fsys, c) ==
    IF filePath \in DOMAIN fsys
    THEN LET currentHash == generateHash(fsys[filePath])
         IN  IF filePath \in DOMAIN c /\ c[filePath] # currentHash
             THEN [changed |-> TRUE, hash |-> currentHash]
             ELSE [changed |-> FALSE, hash |-> currentHash]
    ELSE [changed |-> TRUE, hash |-> <<>>]

\* hasFileChanged answering from the cache alone when the read fails.
hasFileChangedSkipUnreadable(filePath, fsys, c) ==
    IF filePath \in DOMAIN fsys
    THEN LET currentHash == generateHash(fsys[filePath])
         IN  IF filePath \notin DOMAIN c \/ c[filePath] # currentHash
             THEN [changed |-> TRUE, hash |-> currentHash]
             ELSE [changed |-> FALSE, hash |-> currentHash]
    ELSE [changed |-> filePath \notin DOMAIN c, hash |-> <<>>]

hasFileChanged(filePath, fsys, c) ==
    IF filePath \in DOMAIN fsys
    THEN LET currentHash == generateHash(fsys[filePath])
         IN  IF filePath \notin DOMAIN c \/ c[filePath] # currentHash
             THEN [changed |-> TRUE, hash |-> currentHash]
             ELSE [changed |-> FALSE, hash |-> currentHash]
    ELSE [changed |-> TRUE, hash |-> <<>>]

SourcePaths == {P_a, P_b}

PartialFunctions(D, R) == UNION {[X -> R] : X \in SUBSET D}

\* The call of hasFileChanged with what it was given.
Call(filePath) ==
    [path |-> filePath, files |-> fileContent, cache |-> cache,
     result |-> hasFileChanged(filePath, fileContent, cache)]

\* Any files, and the cache as loadCache read it.
InitHash ==
    /\ Constructed /\ KeyIdle /\ LoadIdle /\ envLeft = 0
    /\ ScanIdle /\ ExtractIdle
    /\ fileContent \in PartialFunctions(SourcePaths, Contents)
    /\ cache \in PartialFunctions(SourcePaths, Digests \cup {<<>>})
    /\ fileStatus = <<>>
    /\ diffs = <<>>

IMPORTANT_EXTENSIONS ==
    <<<<".", "j", "s">>, <<".", "j", "s", "x">>, <<".", "t", "s">>, <<".", "t", "s", "x">>,
      <<".", "p", "y">>>>

\* path.extname: from the last dot of the name to its end, nothing for a
\* name without a dot or with its only dot in front.
extname(filePath) ==
    LET dots == {i \in 2..Len(filePath) : filePath[i] = "."}
    IN  IF dots = {} THEN <<>>
        ELSE SubSeq(filePath, CHOOSE i \in dots : \A k \in dots : k <= i, Len(filePath))

\* JavaScript's `key in array`: key is the name of a property of the array,
\* one of its indices or "length".
in(key, array) ==
    key \in {<<HexDigits[i]>> : i \in 1..Len(array)} \cup {<<"l", "e", "n", "g", "t", "h">>}

\* The test of getDiffs on a file.
isDiff(startingPath, fsys, c) ==
    /\ hasFileChanged(startingPath, fsys, c).changed
    /\ in(extname(startingPath), IMPORTANT_EXTENSIONS)

\* The entries of the start directory, in the order readdirSync lists them.
SourceList == <<P_a, P_b>>

\* getDiffs on a directory whose entries are the files `listing`.
getDiffs(listing, fsys, c) ==
    SelectSeq(SourceList, LAMBDA q : q \in listing /\ isDiff(q, fsys, c))

\* getDiffs on a file, writing the hash it computed back into the cache.
GetDiffsWritesBack(startingPath) ==
    /\ fileStatus' = <<Call(startingPath)>>
    /\ diffs' = <<[listing |-> {startingPath},
                   result |-> getDiffs({startingPath}, fileContent, cache)]>>
    /\ cache' = [q \in DOMAIN cache \cup {startingPath} |->
                    IF q = startingPath THEN Call(startingPath).result.hash ELSE cache[q]]
    /\ UNCHANGED <<docVars, keyVars, loadVars, scanVars, extractVars, fileContent>>

\* getDiffs on a file.
GetDiffs(startingPath) ==
    /\ fileStatus' = <<Call(startingPath)>>
    /\ diffs' = <<[listing |-> {startingPath},
                   result |-> getDiffs({startingPath}, fileContent, cache)]>>
    /\ UNCHANGED <<docVars, keyVars, loadVars, scanVars, extractVars, fileContent, cache>>

\* getDiffs on the directory: it lists the files that can be read and some
\* that cannot.
GetDiffsDirectory(listing) ==
    /\ DOMAIN fileContent \subseteq listing
    /\ diffs' = <<[listing |-> listing, result |-> getDiffs(listing, fileContent, cache)]>>
    /\ UNCHANGED <<docVars, keyVars, loadVars, scanVars, extractVars, fileContent, cache, fileStatus>>

\* buildTreeRecursive on a file: the cache entry is written whatever the answer.
BuildTreeFile(fullPath) ==
    /\ fileStatus' = <<Call(fullPath)>>
    /\ cache' = [q \in DOMAIN cache \cup {fullPath} |->
                    IF q = fullPath THEN Call(fullPath).result.hash ELSE cache[q]]
    /\ UNCHANGED <<docVars, keyVars, loadVars, scanVars, extractVars, diffs, fileContent>>

\* The file is rewritten.
WriteSource(filePath, content) ==
    /\ fileContent' = [q \in DOMAIN fileContent \cup {filePath} |->
                          IF q = filePath THEN content ELSE fileContent[q]]
    /\ UNCHANGED <<docVars, keyVars, loadVars, scanVars, extractVars, diffs, cache, fileStatus>>

\* The file is deleted or made unreadable.
RemoveSource(filePath) ==
    /\ filePath \in DOMAIN fileContent
    /\ fileContent' = [q \in DOMAIN fileContent \ {filePath} |-> fileContent[q]]
    /\ UNCHANGED <<docVars, keyVars, loadVars, scanVars, extractVars, diffs, cache, fileStatus>>

NextHash ==
    \/ \E q \in SourcePaths : GetDiffs(q)
    \/ \E listing \in SUBSET SourcePaths : GetDiffsDirectory(listing)
    \/ \E q \in SourcePaths : BuildTreeFile(q)
    \/ \E q \in SourcePaths, content \in Contents : WriteSource(q, content)
    \/ \E q \in SourcePaths : RemoveSource(q)

SpecHash == InitHash /\ [][NextHash]_vars

\* C10: for a readable file, hasFileChanged answers changed exactly when the
\* cache has no entry for the path or the entry's hash differs from the hash
\* of the content, and the hash it returns is the hash of the content.
C10_HasFileChanged ==
    \A i \in 1..Len(fileStatus) :
        LET call == fileStatus[i]
        IN  call.path \in DOMAIN call.files =>
                /\ call.result.changed <=>
                       \/ call.path \notin DOMAIN call.cache
                       \/ call.cache[call.path] # generateHash(call.files[call.path])
                /\ call.result.hash = generateHash(call.files[call.path])

\* hasFileChanged has answered changed for a readable file the cache has no
\* entry for, while the cache holds an entry for another path.
C10_Witness ==
    \E i \in 1..Len(fileStatus) :
        /\ fileStatus[i].path \in DOMAIN fileStatus[i].files
        /\ fileStatus[i].path \notin DOMAIN fileStatus[i].cache
        /\ DOMAIN fileStatus[i].cache # {}
        /\ fileStatus[i].result.changed

\* C11: for a file that cannot be read, hasFileChanged answers changed with
\* the empty hash (an answer, not an error), whatever the cache holds.
C11_UnreadableIsChanged ==
    \A i \in 1..Len(fileStatus) :
        LET call == fileStatus[i]
        IN  call.path \notin DOMAIN call.files =>
                /\ DOMAIN call.result = {"changed", "hash"}
                /\ call.result.changed
                /\ call.result.hash = <<>>

\* hasFileChanged has answered for an unreadable file the cache has an entry
\* with a digest for.
C11_Witness ==
    \E i \in 1..Len(fileStatus) :
        /\ fileStatus[i].path \notin DOMAIN fileStatus[i].files
        /\ fileStatus[i].path \in DOMAIN fileStatus[i].cache
        /\ fileStatus[i].cache[fileStatus[i].path] \in Digests
        /\ fileStatus[i].result.changed

\* C35: a call of getDiffs, and the calls of hasFileChanged it makes, leave
\* the cache as it was, for the files that are read and for those that
\* cannot be.
C35_GetDiffsLeavesCache ==
    [][diffs' # diffs => cache' = cache /\ cacheFile' = cacheFile]_vars

C35_Witness ==
    /\ Len(diffs) = 1
    /\ Len(fileStatus) = 1
    /\ fileStatus[1].path \in diffs[1].listing
    /\ fileStatus[1].path \notin DOMAIN fileStatus[1].files
    /\ fileStatus[1].path \in DOMAIN cache
    /\ fileStatus[1].cache = cache

\* C25: getDiffs returns the listed files that hasFileChanged reports as
\* changed and whose extension is one of IMPORTANT_EXTENSIONS, and no other.
C25_DiffsAreChangedAllowListed ==
    [][\A i \in 1..Len(diffs') :
          diffs' # diffs =>
              Range(diffs'[i].result) =
                  {q \in diffs'[i].listing :
                      /\ hasFileChanged(q, fileContent, cache).changed
                      /\ extname(q) \in Range(IMPORTANT_EXTENSIONS)}]_vars

(***************************************************************************)
(* treesitter.ts: generateDirectoryTreeJson, the scan that merges the      *)
(* structure of the source files into the persisted tree.                  *)
(*                                                                         *)
(* A path is the sequence of its parts below rootDir; a DirectoryTree is a *)
(* function from entry names to DirectoryTree or FileStructure, and a      *)
(* FileStructure is a record with a type field, as in the code.            *)
(***************************************************************************)
\* Changes of the source files in a run.
MaxEdits == 2

\* path.basename(rootDir), already safe.
RootName == "w"

\* The files a workspace may hold: a source file x (x.py) in rootDir, one in
\* a directory, one in a directory named as rootDir is, and a file n (n.md)
\* in a directory of its own.
ScanPaths == {<<"x">>, <<"d", "x">>, <<"w", "x">>, <<"e", "n">>}

Front(q) == SubSeq(q, 1, Len(q) - 1)

Last(q) == q[Len(q)]

IsPrefix(a, b) == Len(a) <= Len(b) /\ SubSeq(b, 1, Len(a)) = a

isDirectoryTree(obj) == "type" \notin DOMAIN obj

isFileStructure(obj) == "type" \in DOMAIN obj /\ obj.type = "file_structure"

\* The loop of getNodeFromExistingTree from `current`, on the parts left.
RECURSIVE Descend(_, _)
Descend(current, parts) ==
    IF parts = <<>> THEN <<current>>
    ELSE IF isFileStructure(current)
         THEN IF Len(parts) > 1 THEN <<>> ELSE <<current>>
    ELSE IF ~isDirectoryTree(current) THEN <<>>
    ELSE IF Head(parts) \notin DOMAIN current THEN <<>>
    ELSE Descend(current[Head(parts)], Tail(parts))

\* The node or nothing (null): a sequence of at most one node.
getNodeFromExistingTree(existingTree, pathParts) ==
    IF existingTree = <<>> \/ pathParts = <<>> THEN <<>>
    ELSE Descend(existingTree[1], pathParts)

\* The most nodes of a syntax tree, its root apart.
MaxNodes == 4

(***************************************************************************)
(* treesitter.ts: extractStructure on a syntax tree.                       *)
(*                                                                         *)
(* The nodes of a tree are numbered in document order, which is the order  *)
(* of the captures and of the lines; node 0 is the root (the program).     *)
(***************************************************************************)
Schemes == {"python", "typescript"}

NodeTypes(scheme) ==
    IF scheme = "python"
    THEN {"class_definition", "function_definition", "block"}
    ELSE {"class_declaration", "method_definition", "function_declaration",
          "statement_block"}

RECURSIVE Ancestors(_, _)
Ancestors(t, i) ==
    IF i = 0 THEN {} ELSE {t.parent[i]} \cup Ancestors(t, t.parent[i])

\* The trees a parser can return: every node follows its parent, and the
\* subtree of a node is a run of consecutive nodes.
SyntaxTrees ==
    UNION {
        {t \in [scheme : {sch}, parent : [1..n -> 0..n], type : [1..n -> NodeTypes(sch)]] :
            \A i \in 1..n :
                /\ t.parent[i] < i
                /\ i > 1 => t.parent[i] \in {i - 1} \cup Ancestors(t, i - 1)} :
        sch \in Schemes, n \in 0..MaxNodes}

\* The switch on definitionNode.type of the first pass; "" for no item.
itemType(nodeType) ==
    CASE nodeType \in {"class_declaration", "class_definition"} -> "class"
      [] nodeType = "method_definition" -> "method"
      [] nodeType \in {"function_declaration", "function_definition"} -> "function"
      [] OTHER -> ""

\* First pass: the nodes an item is created for (itemMap), in capture order.
itemNodes(t) ==
    SelectSeq([i \in 1..Len(t.type) |-> i], LAMBDA i : itemType(t.type[i]) # "")

\* A class that is the parent of every node below it, whatever lies between.
RECURSIVE OutermostClass(_, _)
OutermostClass(t, j) ==
    IF j = 0 THEN 0
    ELSE LET outer == OutermostClass(t, t.parent[j])
         IN  IF outer # 0 THEN outer
             ELSE IF itemType(t.type[j]) = "class" THEN j ELSE 0

\* Second pass: the while loop from parentNode up to the class item found,
\* 0 for none.
RECURSIVE NearestClass(_, _)
NearestClass(t, j) ==
    IF j = 0 THEN 0
    ELSE IF itemType(t.type[j]) = "class" THEN j
    ELSE NearestClass(t, t.parent[j])

\* Second pass: the item is pushed to the children of a class.
Nested(t, i) ==
    /\ NearestClass(t, t.parent[i]) # 0
    /\ itemType(t.type[i]) \in {"method", "function"}

LastLine(t, i) ==
    CHOOSE k \in i..Len(t.type) :
        /\ \A j \in (i + 1)..k : i \in Ancestors(t, j)
        /\ k < Len(t.type) => i \notin Ancestors(t, k + 1)

\* The CodeItem of a node that is not a class, as the second pass leaves it.
codeItem(t, i) ==
    [type |-> IF /\ itemType(t.type[i]) = "function"
                 /\ t.scheme = "python"
                 /\ NearestClass(t, t.parent[i]) # 0
              THEN "method" ELSE itemType(t.type[i]),
     name |-> i, startLine |-> i, endLine |-> LastLine(t, i)]

\* The CodeItem of a class, with the children the second pass pushed.
classItem(t, i) ==
    [type |-> "class", name |-> i, startLine |-> i, endLine |-> LastLine(t, i),
     children |->
        LET nested == SelectSeq(itemNodes(t),
                          LAMBDA k : Nested(t, k) /\ NearestClass(t, t.parent[k]) = i)
        IN  [k \in 1..Len(nested) |-> codeItem(t, nested[k])]]

\* extractStructure: rootItems.
rootItems(t) ==
    LET top == SelectSeq(itemNodes(t), LAMBDA i : ~Nested(t, i))
    IN  [k \in 1..Len(top) |->
            IF itemType(t.type[top[k]]) = "class"
            THEN classItem(t, top[k]) ELSE codeItem(t, top[k])]

\* parseFile: the tree of a content, one definition a line, a function for
\* "a" and a class for "b".
parseFile(content) ==
    [scheme |-> "python",
     parent |-> [i \in 1..Len(content) |-> 0],
     type |-> [i \in 1..Len(content) |->
                  IF content[i] = "a" THEN "function_definition" ELSE "class_definition"]]

extractStructure(content, filePath, fileHash) ==
    [type |-> "file_structure", filePath |-> filePath,
     items |-> rootItems(parseFile(content)),
     file_hash |-> IF fileHash # <<>> THEN fileHash ELSE generateHash(content)]

\* buildTreeRecursive: existingFileNode for the file.
existingFileNode(existingTree, q) ==
    LET existingSubtree == getNodeFromExistingTree(existingTree, Front(q))
    IN  IF /\ existingSubtree # <<>>
           /\ isDirectoryTree(existingSubtree[1])
           /\ Last(q) \in DOMAIN existingSubtree[1]
           /\ isFileStructure(existingSubtree[1][Last(q)])
        THEN <<existingSubtree[1][Last(q)]>>
        ELSE <<>>

\* buildTreeRecursive: the file is parsed and its structure extracted.
Extracts(fsys, c, existingTree, q) ==
    hasFileChanged(q, fsys, c).changed \/ existingFileNode(existingTree, q) = <<>>

\* buildTreeRecursive: directoryContent[entryKey] for a file.
fileEntry(fsys, c, existingTree, q) ==
    LET hash == hasFileChanged(q, fsys, c).hash
        node == existingFileNode(existingTree, q)
    IN  IF Extracts(fsys, c, existingTree, q)
        THEN extractStructure(fsys[q], q, hash)
        ELSE IF node[1].file_hash # hash
             THEN [node[1] EXCEPT !.file_hash = hash]
             ELSE node[1]

\* buildTreeRecursive: IMPORTANT_EXTENSIONS.includes(ext), on the names above.
Eligible(q) == Last(q) = "x"

\* The files of fsys the scan looks into.
EligibleFiles(fsys) == [q \in {r \in DOMAIN fsys : Eligible(r)} |-> fsys[q]]

\* The most files of a scan whose parse or extraction fails.
MaxFailures == 1

\* A file that gets a node although nothing was extracted from it.
NeverFails(failed, q) == FALSE

\* buildTreeRecursive: parseFile or extractStructure returns null for the
\* file (it cannot be read any more, the parser throws, no query compiles).
Fails(failed, q) == q \in failed

\* buildTreeRecursive: the file gets a key in directoryContent.
HasEntry(fsys, c, existingTree, failed, q) ==
    ~(Extracts(fsys, c, existingTree, q) /\ Fails(failed, q))

\* A directory gets a key whatever its subtree holds.
KeepsEmpty(subtree) == TRUE

\* buildTreeRecursive: Object.keys(subtree).length > 0.
NonEmpty(subtree) == DOMAIN subtree # {}

\* buildTreeRecursive: the directoryContent of currentPath.
RECURSIVE buildTreeRecursive(_, _, _, _, _)
buildTreeRecursive(currentPath, fsys, c, existingTree, failed) ==
    LET below == {q \in DOMAIN fsys : IsPrefix(currentPath, q) /\ Len(q) > Len(currentPath)}
        entries == {q[Len(currentPath) + 1] : q \in below}
        content(entryKey) ==
            LET fullPath == Append(currentPath, entryKey)
            IN  IF fullPath \in DOMAIN fsys
                THEN fileEntry(fsys, c, existingTree, fullPath)
                ELSE buildTreeRecursive(fullPath, fsys, c, existingTree, failed)
        kept == {entryKey \in entries :
                    LET fullPath == Append(currentPath, entryKey)
                    IN  IF fullPath \in DOMAIN fsys
                        THEN /\ Eligible(fullPath)
                             /\ HasEntry(fsys, c, existingTree, failed, fullPath)
                        ELSE NonEmpty(content(entryKey))}
    IN  [entryKey \in kept |-> content(entryKey)]

\* A scan that writes a cache entry only for a file that has none.
scannedCacheNewOnly(fsys, c) ==
    [q \in DOMAIN c \cup DOMAIN fsys |->
        IF q \in DOMAIN c THEN c[q] ELSE hasFileChanged(q, fsys, c).hash]

\* buildTreeRecursive: the cache entries it leaves.
scannedCache(fsys, c) ==
    [q \in DOMAIN c \cup DOMAIN fsys |->
        IF q \in DOMAIN fsys THEN hasFileChanged(q, fsys, c).hash ELSE c[q]]

\* The file written to <rootDir>.tree.json.
jsonOutput(treeContent) == [safeRootDirName \in {RootName} |-> treeContent]

NoFiles == [q \in {} |-> <<>>]

\* generateDirectoryTreeJson(rootDir, parser, force, false), in a scan where
\* the parse or the extraction of the files `failed` fails.
generateDirectoryTreeJson(force, failed) ==
    LET existingTree == IF force THEN <<>> ELSE treeFile
        c == IF force THEN NoFiles ELSE cacheFile
        treeContent == buildTreeRecursive(<<>>, sources, c, existingTree, failed)
        eligible == EligibleFiles(sources)
        extracted == {q \in DOMAIN eligible : Extracts(sources, c, existingTree, q)}
        updatedPaths == {q \in extracted : HasEntry(sources, c, existingTree, failed, q)}
    IN  /\ failed \subseteq extracted
        /\ Cardinality(failed) <= MaxFailures
        /\ treeFile' = <<jsonOutput(treeContent)>>
        /\ cacheFile' = scannedCache(eligible, c)
        /\ scannedSources' = <<eligible>>
        /\ scan' = <<[force |-> force,
                      previousForce |-> IF scan = <<>> THEN <<>> ELSE <<scan[1].force>>,
                      failed |-> failed,
                      directories |-> {Front(q) : q \in {r \in DOMAIN sources : Len(r) > 1}},
                      previousFailed |-> IF scan = <<>> THEN {} ELSE scan[1].failed,
                      sourcesBefore |-> scannedSources,
                      treeBefore |-> treeFile,
                      cacheBefore |-> cacheFile,
                      sources |-> eligible,
                      tree |-> treeContent,
                      cache |-> scannedCache(eligible, c),
                      extracted |-> extracted,
                      updatedPaths |-> updatedPaths]>>
        /\ UNCHANGED <<docVars, keyVars, loadVars, hashVars, extractVars, sources, editsLeft>>

\* The monitor's timer, and the full scans the user interface asks for.
MonitorScan(failed) == generateDirectoryTreeJson(FALSE, failed) /\ UNCHANGED monitorVars

ForcedScan(failed) == generateDirectoryTreeJson(TRUE, failed) /\ UNCHANGED monitorVars

\* A source file is created or rewritten.
EditSource(q, content) ==
    /\ Eligible(q) \/ content = <<>>
    /\ editsLeft > 0
    /\ editsLeft' = editsLeft - 1
    /\ sources' = [r \in DOMAIN sources \cup {q} |-> IF r = q THEN content ELSE sources[r]]
    /\ UNCHANGED <<docVars, keyVars, loadVars, hashVars, extractVars, treeFile, cacheFile, scannedSources, scan, monitorVars>>

\* A source file is deleted.
DeleteSource(q) ==
    /\ q \in DOMAIN sources
    /\ editsLeft > 0
    /\ editsLeft' = editsLeft - 1
    /\ sources' = [r \in DOMAIN sources \ {q} |-> sources[r]]
    /\ UNCHANGED <<docVars, keyVars, loadVars, hashVars, extractVars, treeFile, cacheFile, scannedSources, scan, monitorVars>>

\* A workspace never scanned: no tree file, no cache file.
InitScan ==
    /\ Constructed /\ KeyIdle /\ LoadIdle /\ envLeft = 0
    /\ HashIdle /\ ExtractIdle
    /\ sources \in PartialFunctions({q \in ScanPaths : Eligible(q)}, Contents)
    /\ treeFile = <<>>
    /\ cacheFile = NoFiles
    /\ scannedSources = <<>>
    /\ scan = <<>>
    /\ editsLeft = MaxEdits
    /\ MonitorIdle

NextScan ==
    \/ MonitorScan({})
    \/ ForcedScan({})
    \/ \E q \in {r \in ScanPaths : Eligible(r)}, content \in Contents : EditSource(q, content)
    \/ \E q \in ScanPaths : DeleteSource(q)

\* Scans of a workspace of source files all of which parse.
SpecScan == InitScan /\ [][NextScan]_vars

\* The most edits of a workspace where scans may fail on a file.
MaxParseEdits == 1

\* Its files: the directory named as rootDir is left out.
ParsePaths == ScanPaths \ {<<"w", "x">>}

InitParse ==
    /\ Constructed /\ KeyIdle /\ LoadIdle /\ envLeft = 0
    /\ HashIdle /\ ExtractIdle
    /\ sources \in PartialFunctions(ParsePaths, Contents)
    /\ \A q \in DOMAIN sources : Eligible(q) \/ sources[q] = <<>>
    /\ treeFile = <<>>
    /\ cacheFile = NoFiles
    /\ scannedSources = <<>>
    /\ scan = <<>>
    /\ editsLeft = MaxParseEdits
    /\ MonitorIdle

NextParse ==
    \/ \E failed \in SUBSET ParsePaths : MonitorScan(failed)
    \/ \E failed \in SUBSET ParsePaths : ForcedScan(failed)
    \/ \E q \in ParsePaths, content \in Contents : EditSource(q, content)
    \/ \E q \in ParsePaths : DeleteSource(q)

\* Scans of a workspace that also holds a file no scan looks into, where
\* the parse or the extraction of a file may fail.
SpecParse == InitParse /\ [][NextParse]_vars

\* The most calls of the interval callback that the model lets await.
MaxCalls == 2

\* The most edits of the workspace the monitor watches.
MaxMonitorEdits == 1

\* The interval callback without its test of isRunning.
IntervalTickNoTest ==
    /\ Len(monitorAt) < MaxCalls
    /\ isRunning' = TRUE
    /\ monitorAt' = Append(monitorAt, "scan")
    /\ skipped' = FALSE
    /\ UNCHANGED <<docVars, keyVars, loadVars, hashVars, extractVars, sources, treeFile, cacheFile, scannedSources, scan, editsLeft, ended>>

\* The interval fires: the callback returns at once while isRunning is set,
\* and otherwise sets it and runs as far as its await of the scan.
IntervalTick ==
    /\ Len(monitorAt) < MaxCalls
    /\ IF isRunning
       THEN /\ skipped' = TRUE
            /\ UNCHANGED <<docVars, keyVars, loadVars, hashVars, extractVars, sources, treeFile, cacheFile, scannedSources, scan, editsLeft, isRunning, monitorAt, ended>>
       ELSE /\ isRunning' = TRUE
            /\ monitorAt' = Append(monitorAt, "scan")
            /\ skipped' = FALSE
            /\ UNCHANGED <<docVars, keyVars, loadVars, hashVars, extractVars, sources, treeFile, cacheFile, scannedSources, scan, editsLeft, ended>>

\* The scan a call awaits returns: the callback is called if the scan
\* updated a path, and may throw; the finally clause clears isRunning.
MonitorSettle(failed, thrown) ==
    /\ monitorAt # <<>>
    /\ generateDirectoryTreeJson(FALSE, failed)
    /\ thrown => scan'[1].updatedPaths # {}
    /\ isRunning' = FALSE
    /\ monitorAt' = Tail(monitorAt)
    /\ ended' = IF thrown THEN "threw" ELSE "returned"
    /\ UNCHANGED skipped

\* The scan a call awaits throws before it writes the tree and the cache:
\* the catch clause logs, the finally clause clears isRunning.
MonitorReject ==
    /\ monitorAt # <<>>
    /\ isRunning' = FALSE
    /\ monitorAt' = Tail(monitorAt)
    /\ ended' = "threw"
    /\ UNCHANGED <<docVars, keyVars, loadVars, hashVars, extractVars, sources, treeFile, cacheFile, scannedSources, scan, editsLeft, skipped>>

InitMonitor ==
    /\ Constructed /\ KeyIdle /\ LoadIdle /\ envLeft = 0
    /\ HashIdle /\ ExtractIdle
    /\ sources \in PartialFunctions({q \in ScanPaths : Eligible(q)}, Contents)
    /\ treeFile = <<>>
    /\ cacheFile = NoFiles
    /\ scannedSources = <<>>
    /\ scan = <<>>
    /\ editsLeft = MaxMonitorEdits
    /\ MonitorIdle

NextMonitor ==
    \/ IntervalTick
    \/ \E thrown \in BOOLEAN : MonitorSettle({}, thrown)
    \/ MonitorReject
    \/ \E q \in {r \in ScanPaths : Eligible(r)}, content \in Contents : EditSource(q, content)
    \/ \E q \in ScanPaths : DeleteSource(q)

\* The scans of monitorDirectoryChanges, each a call of the interval
\* callback that awaits its scan while the workspace is edited.
SpecMonitor == InitMonitor /\ [][NextMonitor]_vars

\* C40: the calls of the interval callback never overlap: at most one awaits
\* its scan, a tick that fires while isRunning is set starts none, and
\* isRunning is set exactly while a call awaits its scan, so that it is clear
\* once the call has ended, by return or by throw, and the next tick scans.
C40_ScansNeverOverlap ==
    /\ Len(monitorAt) <= 1
    /\ isRunning <=> monitorAt # <<>>

\* A scan is awaited that started after a call ended by a throw, and a tick
\* has fired since and started nothing.
C40_Witness ==
    /\ monitorAt = <<"scan">>
    /\ isRunning
    /\ skipped
    /\ ended = "threw"

\* The FileStructure the tree file holds at the path of the file, if any.
NodeAt(file, q) ==
    IF file = <<>> THEN <<>>
    ELSE LET n == Descend(file[1], <<RootName>> \o q)
         IN  IF n # <<>> /\ isFileStructure(n[1]) THEN n ELSE <<>>

\* C12: in a scan that is not forced, a file whose hash equals the hash the
\* cache held for it and that had a node in the tree file is not handed to
\* the extractor, and the new tree holds that node for it, with the hash of
\* the content.
C12_UnchangedFileIsReused ==
    \A i \in 1..Len(scan) :
        ~scan[i].force =>
            \A q \in DOMAIN scan[i].sources :
                LET prior == NodeAt(scan[i].treeBefore, q)
                    hash == generateHash(scan[i].sources[q])
                IN  /\ q \in DOMAIN scan[i].cacheBefore
                    /\ scan[i].cacheBefore[q] = hash
                    /\ prior # <<>>
                    => /\ q \notin scan[i].extracted
                       /\ NodeAt(<<jsonOutput(scan[i].tree)>>, q)
                             = <<[prior[1] EXCEPT !.file_hash = hash]>>

\* C13: the diff set of a scan that is not forced and follows another scan
\* is the set of the files whose content hash differs from the one the
\* previous scan saw (new files included) or that had no node in the tree
\* file.
C13_DiffSetIsTheChangedFiles ==
    \A i \in 1..Len(scan) :
        ~scan[i].force /\ scan[i].sourcesBefore # <<>> /\ scan[i].failed = {} =>
            scan[i].updatedPaths =
                {q \in DOMAIN scan[i].sources :
                    \/ q \notin DOMAIN scan[i].sourcesBefore[1]
                    \/ generateHash(scan[i].sourcesBefore[1][q])
                          # generateHash(scan[i].sources[q])
                    \/ NodeAt(scan[i].treeBefore, q) = <<>>}

\* C14: the second of two scans that are not forced, with no change of the
\* source files in between, writes the tree file the first wrote and leaves
\* the hash of every cache entry as it was.
C14_ScanIsIdempotent ==
    \A i \in 1..Len(scan) :
        /\ ~scan[i].force
        /\ scan[i].previousForce = <<FALSE>>
        /\ scan[i].sourcesBefore = <<scan[i].sources>>
        /\ scan[i].failed = {} /\ scan[i].previousFailed = {}
        => /\ <<jsonOutput(scan[i].tree)>> = scan[i].treeBefore
           /\ scan[i].cache = scan[i].cacheBefore

\* The file has a node in the tree the scan built.
InTree(i, q) == NodeAt(<<jsonOutput(scan[i].tree)>>, q) # <<>>

\* C24: a file whose parse or extraction fails gets its cache entry, no
\* node in the tree and no place in the diff set, and the scan goes on: every
\* other file it looks into gets its cache entry and its node.
C24_FailedFileIsCachedOnly ==
    \A i \in 1..Len(scan) :
        \A q \in scan[i].failed :
            /\ q \in DOMAIN scan[i].cache
            /\ scan[i].cache[q] = generateHash(scan[i].sources[q])
            /\ ~InTree(i, q)
            /\ q \notin scan[i].updatedPaths
            /\ \A r \in DOMAIN scan[i].sources \ scan[i].failed :
                  r \in DOMAIN scan[i].cache /\ InTree(i, r)

C24_Witness ==
    \E i \in 1..Len(scan) :
        /\ scan[i].failed # {}
        /\ DOMAIN scan[i].sources \ scan[i].failed # {}

\* The directories of a tree, as paths from its root.
RECURSIVE Directories(_)
Directories(tree) ==
    UNION {{<<k>>} \cup {<<k>> \o q : q \in Directories(tree[k])} :
              k \in {e \in DOMAIN tree : isDirectoryTree(tree[e])}}

\* C27: in the tree of a scan every directory below the root holds a key,
\* and a directory with no eligible file below it has no key in its parent.
C27_NoEmptyDirectory ==
    \A i \in 1..Len(scan) :
        /\ \A q \in Directories(scan[i].tree) :
              DOMAIN Descend(scan[i].tree, q)[1] # {}
        /\ \A dir \in scan[i].directories :
              (\A q \in DOMAIN scan[i].sources : ~IsPrefix(dir, q)) =>
                  dir \notin Directories(scan[i].tree)

C27_Witness ==
    \E i \in 1..Len(scan) :
        /\ \E dir \in scan[i].directories : \A q \in DOMAIN scan[i].sources : ~IsPrefix(dir, q)
        /\ \E q \in scan[i].failed : Front(q) # <<>>
        /\ DOMAIN scan[i].tree # {}

\* C34: a scan leaves, for every source file it looks into, a cache entry
\* that holds the hash of the content of the file, whether the file had
\* changed or not and whether its parse failed or not, and the cache file
\* holds these entries.
C34_ScanRefreshesCache ==
    \A i \in 1..Len(scan) :
        /\ cacheFile = scan[i].cache
        /\ \A q \in DOMAIN scan[i].sources :
              /\ q \in DOMAIN scan[i].cache
              /\ scan[i].cache[q] = generateHash(scan[i].sources[q])

C34_Witness ==
    \E i \in 1..Len(scan) :
        /\ \E q \in scan[i].failed :
              /\ q \in DOMAIN scan[i].cacheBefore
              /\ scan[i].cacheBefore[q] # generateHash(scan[i].sources[q])
        /\ \E q \in DOMAIN scan[i].sources \ scan[i].failed :
              /\ q \in DOMAIN scan[i].cacheBefore
              /\ scan[i].cacheBefore[q] = generateHash(scan[i].sources[q])

(***************************************************************************)
(* The extractor on any syntax tree.                                       *)
(***************************************************************************)
InitExtract ==
    /\ Constructed /\ KeyIdle /\ LoadIdle /\ envLeft = 0
    /\ HashIdle /\ ScanIdle
    /\ syntax \in {<<t>> : t \in SyntaxTrees}
    /\ structure = <<>>

\* extractStructure on the tree parseFile returned.
ExtractStructure ==
    /\ structure = <<>>
    /\ structure' = <<[tree |-> syntax[1], items |-> rootItems(syntax[1])]>>
    /\ UNCHANGED <<docVars, keyVars, loadVars, hashVars, scanVars, syntax>>

\* The file is edited, one definition becoming another, and parsed again.
ParseNext ==
    /\ structure # <<>>
    /\ \E i \in 1..Len(syntax[1].type), ty \in NodeTypes(syntax[1].scheme) :
           syntax' = <<[syntax[1] EXCEPT !.type[i] = ty]>>
    /\ structure' = <<>>
    /\ UNCHANGED <<docVars, keyVars, loadVars, hashVars, scanVars>>

NextExtract == ExtractStructure \/ ParseNext

SpecExtract == InitExtract /\ [][NextExtract]_vars

\* The classes whose defining node encloses node i.
EnclosingClasses(t, i) ==
    {j \in Ancestors(t, i) : j # 0 /\ itemType(t.type[j]) = "class"}

\* The names among a sequence of items.
Names(items) == {items[k].name : k \in 1..Len(items)}

\* C36: for every scheme, every item among the children of a class is a
\* method: a function inside a class is made a method when it is attached.
C36_ClassChildrenAreMethods ==
    \A s \in 1..Len(structure) :
        LET items == structure[s].items
        IN  \A k \in 1..Len(items) :
                items[k].type = "class" =>
                    \A c \in 1..Len(items[k].children) :
                        items[k].children[c].type = "method"

\* C15: a method or function whose node lies inside the node of a class is
\* not among the top-level items and is among the children of exactly one
\* class, the innermost that encloses it.
C15_MethodsNestInNearestClass ==
    \A s \in 1..Len(structure) :
        LET t == structure[s].tree
            items == structure[s].items
            ClassesHolding(i) ==
                {c \in 1..Len(t.type) :
                    \E k \in 1..Len(items) :
                        /\ items[k].type = "class"
                        /\ items[k].name = c
                        /\ i \in Names(items[k].children)}
        IN  \A i \in 1..Len(t.type) :
                /\ itemType(t.type[i]) \in {"method", "function"}
                /\ EnclosingClasses(t, i) # {}
                => /\ i \notin Names(items)
                   /\ ClassesHolding(i) =
                         {CHOOSE c \in EnclosingClasses(t, i) :
                             \A e \in EnclosingClasses(t, i) : e <= c}

\* a.py with function foo (node 1) and class Bar (node 2) with method baz
\* (node 4, inside the block of the class, node 3) has given
\* [function foo, class Bar{children: [method baz]}].
C15_Witness ==
    /\ structure # <<>>
    /\ structure[1].tree =
          [scheme |-> "python", parent |-> <<0, 0, 2, 3>>,
           type |-> <<"function_definition", "class_definition", "block",
                      "function_definition">>]
    /\ structure[1].items =
          <<[type |-> "function", name |-> 1, startLine |-> 1, endLine |-> 1],
            [type |-> "class", name |-> 2, startLine |-> 2, endLine |-> 4,
             children |->
                <<[type |-> "method", name |-> 4, startLine |-> 4, endLine |-> 4]>>]>>

\* The most "./" an input path starts with.
MaxDots == 3

(***************************************************************************)
(* DocManager.ts: the strings that key the store and fill the queue, for   *)
(* the paths callers and docs.json hand in.  The store is followed as the  *)
(* function from each key to the path field of its record.                 *)
(***************************************************************************)
RECURSIVE Dots(_)
Dots(k) == IF k = 0 THEN <<>> ELSE <<".", "/">> \o Dots(k - 1)

\* Paths as callers write them: with leading "./", with backslashes.
InputPaths ==
    {Dots(k) \o base : k \in 0..MaxDots, base \in {P_a, <<"s", "\\", "c", ".", "t", "s">>}}
        \cup {<<".", "\\">> \o P_a}

\* loadDocs: normalizedFiles for the files object of docs.json.
loadDocs(dataFiles) ==
    [n \in {normalizePath(key) : key \in DOMAIN dataFiles} |-> n]

\* generateDocumentation to its end, a call that is not rejected by the
\* service: the store after it.
generateDocumentationKey(store, relativePath, found) ==
    LET n == normalizePath(relativePath)
    IN  IF found
        THEN [k \in DOMAIN store \cup {n} |-> IF k = n THEN n ELSE store[k]]
        ELSE [k \in DOMAIN store \ {n} |-> store[k]]

\* removeDocumentation: the store after it.
removeDocumentationKey(store, relativePath) ==
    [k \in DOMAIN store \ {normalizePath(relativePath)} |-> store[k]]

\* addToQueue: the queue after it.
addToQueueKey(queue, relativePath) ==
    LET normalizedPath == normalizePath(relativePath)
    IN  IF normalizedPath \notin Range(queue) THEN Append(queue, normalizedPath) ELSE queue

\* Keys of a docs.json written by a version that kept "./" or backslashes.
StoredPaths == {key \in InputPaths : ~StartsWith(key, Dots(2))}

\* The constructor has run loadDocs on the docs.json it found.
InitKeys ==
    /\ Constructed /\ envLeft = 0
    /\ TreeIdle /\ LoadIdle
    /\ \E keys \in {ks \in SUBSET StoredPaths : Cardinality(ks) <= 2} :
          storeKeys = loadDocs([key \in keys |-> [path |-> key]])
    /\ queueKeys = <<>>
    /\ runningKeys = <<>>

\* The most paths the queue holds.
MaxQueueKeys == 2

\* updateDocumentation(filePath): the path is pushed, and the drain loop, if
\* none is running, starts and takes it at once.
KeyUpdate(filePath) ==
    /\ Len(queueKeys) < MaxQueueKeys
    /\ LET queue == addToQueueKey(queueKeys, normalizePath(filePath))
       IN  IF queueKeys = <<>> /\ runningKeys = <<>>
           THEN queueKeys' = <<>> /\ runningKeys' = queue
           ELSE queueKeys' = queue /\ runningKeys' = runningKeys
    /\ UNCHANGED <<docVars, treeVars, loadVars, storeKeys>>

\* The drain loop, back from its delay once the calls of the batch before
\* have settled, takes a batch and calls generateDocumentation on each of
\* its paths.
KeyDrain ==
    /\ queueKeys # <<>>
    /\ runningKeys = <<>>
    /\ LET batchSize == BatchSize(queueKeys)
       IN  /\ queueKeys' = SubSeq(queueKeys, batchSize + 1, Len(queueKeys))
           /\ runningKeys' = SubSeq(queueKeys, 1, batchSize)
    /\ UNCHANGED <<docVars, treeVars, loadVars, storeKeys>>

\* The calls of the batch settle: the file found with text or not, the
\* service answering or not.
KeySettle ==
    /\ runningKeys # <<>>
    /\ \E outcome \in [1..Len(runningKeys) -> {"stored", "removed", "rejected"}] :
          LET RECURSIVE After(_)
              After(i) ==
                 IF i = 0 THEN storeKeys
                 ELSE IF outcome[i] = "rejected" THEN After(i - 1)
                 ELSE generateDocumentationKey(After(i - 1), runningKeys[i],
                                               outcome[i] = "stored")
          IN  storeKeys' = After(Len(runningKeys))
    /\ runningKeys' = <<>>
    /\ UNCHANGED <<docVars, treeVars, loadVars, queueKeys>>

\* generateDocumentation(relativePath) called from the interface.
KeyGenerate(relativePath, found) ==
    /\ storeKeys' = generateDocumentationKey(storeKeys, relativePath, found)
    /\ UNCHANGED <<docVars, treeVars, loadVars, queueKeys, runningKeys>>

\* removeDocumentation(relativePath).
KeyRemove(relativePath) ==
    /\ storeKeys' = removeDocumentationKey(storeKeys, relativePath)
    /\ UNCHANGED <<docVars, treeVars, loadVars, queueKeys, runningKeys>>

NextKeys ==
    \/ \E filePath \in InputPaths : KeyUpdate(filePath)
    \/ KeyDrain
    \/ KeySettle
    \/ \E relativePath \in InputPaths, found \in BOOLEAN : KeyGenerate(relativePath, found)
    \/ \E relativePath \in InputPaths : KeyRemove(relativePath)

SpecKeys == InitKeys /\ [][NextKeys]_vars

\* Forward slashes only, no leading "./".
IsNormalized(s) ==
    /\ \A i \in 1..Len(s) : s[i] # "\\"
    /\ ~StartsWith(s, <<".", "/">>)

\* C16: every key of the store and every element of the queue is a
\* normalized path, and the path field of each record equals its key.
C16_KeysAreNormalized ==
    /\ \A key \in DOMAIN storeKeys : IsNormalized(key) /\ storeKeys[key] = key
    /\ \A i \in 1..Len(queueKeys) : IsNormalized(queueKeys[i])

\* C38: no two calls of generateDocumentation that the drain loop has in
\* flight are for the same path, the path each call normalizes its argument
\* to and keys its record with.
C38_OneCallPerPath ==
    \A i \in 1..Len(runningKeys), j \in 1..Len(runningKeys) :
        normalizePath(runningKeys[i]) = normalizePath(runningKeys[j]) => i = j

(***************************************************************************)
(* The full scan, the save timer and the explicit saves.                   *)
(***************************************************************************)
\* The path went through addToQueue in this step: it is pending, or the
\* drain loop that this step started has taken it as its first batch (and
\* the call has already failed on an empty file and removed the record).
EnqueuedInStep(f) ==
    \/ f \in Range(processingQueue')
    \/ /\ ~isProcessingQueue
       /\ \/ \E i \in 1..Len(promises') : promises'[i].path = f
          \/ disk[f] = "empty" /\ files'[f] = "none"

\* C17: regenerateAllDocs empties the pending queue, and when its scan
\* returns, every non-ignored file the scan found has been enqueued, with or
\* without an up-to-date record, and the result has queued = total and
\* skipped = 0.
C17_RegenerateQueuesEveryFile ==
    [][/\ TRUE \notin scans /\ TRUE \in scans' => processingQueue' = <<>>
       /\ TRUE \in scans /\ TRUE \notin scans' =>
             /\ regenerated' # <<>>
             /\ regenerated'[1].queued = regenerated'[1].total
             /\ regenerated'[1].skipped = 0
             /\ \/ regenerated'[1].total = 0
                \/ /\ regenerated'[1].total = Len(validFiles(disk))
                   /\ \A f \in Range(validFiles(disk)) : EnqueuedInStep(f)]_vars

\* regenerateAllDocs has returned on the workspace as constructed: the four
\* files that are not ignored, each with an up-to-date record, are pending
\* or in generation.
C17_Witness ==
    /\ regenerated # <<>>
    /\ regenerated[1] = [total |-> 4, queued |-> 4, skipped |-> 0]
    /\ TRUE \notin scans
    /\ Len(processingQueue) = 3
    /\ Len(promises) = 1
    /\ \A p \in Range(processingQueue) : files[p] = "current"

\* docs.json holds the store as it is in memory.
InSync == persisted = [p \in Paths |-> IF files[p] = "none" THEN "none" ELSE "same"]

\* The store's records changed in this step (a file that is rewritten makes
\* its record out of date without changing it).
StoreMutated ==
    \E p \in Paths :
        \/ (files[p] = "none") # (files'[p] = "none")
        \/ files[p] = "outdated" /\ files'[p] = "current"
        \/ persisted[p] # "old" /\ persisted'[p] = "old"

\* C18: one save timer at most is pending, and it is the only thing that
\* stands between a change of the store and docs.json: a change of the store
\* that is not saved in the same step restarts the timer at its full wait, so
\* that changes less than the wait apart are written once, the wait after the
\* last; the timer writes only when it is due; and a write by any call of
\* saveDocs leaves no timer pending, so that no second write follows.
C18_OneDebouncedSave ==
    [][/\ StoreMutated /\ saved' = "none" => saveTimeout' = SaveWait
       /\ saved' = "timer" => saveTimeout = 0
       /\ saved' # "none" => saveTimeout' = NoTimer /\ InSync'
       /\ saveTimeout' = NoTimer => InSync'
       /\ saveTimeout # NoTimer /\ saveTimeout' = NoTimer => saved' # "none"]_vars

\* The timer has written docs.json after two changes of the store that it
\* had not yet written.
C18_Witness ==
    /\ saved = "timer"
    /\ saveTimeout = NoTimer
    /\ InSync
    /\ Cardinality({p \in LoadedDocs : files[p] = "none"}) >= 2

MaxText == 3

(***************************************************************************)
(* DocManager.loadDocs and treesitter's loadCache on whatever text the     *)
(* file holds.  A text is a sequence of tokens: "x" a number, "{" and "}"  *)
(* the braces of an object, "f" a member "files" holding the record of     *)
(* ./a.ts.                                                                 *)
(***************************************************************************)
Tokens == {"x", "{", "}", "f"}

Texts == UNION {[1..n -> Tokens] : n \in 0..MaxText}

\* JSON.parse: the value, or the SyntaxError thrown.
JSONparse(text) ==
    CASE text = <<"x">> -> [threw |-> FALSE, kind |-> "number"]
      [] text = <<"{", "}">> -> [threw |-> FALSE, kind |-> "object", members |-> {}]
      [] text = <<"{", "f", "}">> -> [threw |-> FALSE, kind |-> "object", members |-> {"files"}]
      [] OTHER -> [threw |-> TRUE]

\* The files object of the member "f".
FilesMember == [key \in {<<".", "/">> \o P_a} |-> [path |-> key]]

\* loadDocs without its try and catch.
readDocsUncaught(file) ==
    IF file # <<>> /\ JSONparse(file[1]).threw
    THEN [raised |-> TRUE]
    ELSE [raised |-> FALSE, files |-> <<>>]

\* loadDocs: existsSync, the try around JSON.parse and the loop, and the
\* fresh structure returned otherwise.  Assigning data.files on a number
\* throws a TypeError inside the try.
readDocs(file) ==
    IF file = <<>> THEN [raised |-> FALSE, files |-> <<>>]
    ELSE LET data == JSONparse(file[1])
         IN  IF data.threw THEN [raised |-> FALSE, files |-> <<>>]
             ELSE IF data.kind = "number" THEN [raised |-> FALSE, files |-> <<>>]
             ELSE IF "files" \in data.members
                  THEN [raised |-> FALSE, files |-> loadDocs(FilesMember)]
                  ELSE [raised |-> FALSE, files |-> <<>>]

\* loadCache: existsSync, the try around JSON.parse, and the empty cache
\* returned otherwise.  What parses is returned as it is.
loadCache(file) ==
    IF file = <<>> THEN [raised |-> FALSE, parsed |-> FALSE, files |-> <<>>, lastUpdated |-> 0]
    ELSE LET data == JSONparse(file[1])
         IN  IF data.threw
             THEN [raised |-> FALSE, parsed |-> FALSE, files |-> <<>>, lastUpdated |-> 0]
             ELSE [raised |-> FALSE, parsed |-> TRUE, value |-> data]

InitLoad ==
    /\ Constructed /\ envLeft = 0
    /\ TreeIdle /\ KeyIdle
    /\ jsonText \in {<<>>} \cup {<<text>> : text \in Texts}
    /\ loaded = <<>>

\* The constructor of DocManager loads docs.json.
LoadDocs ==
    /\ loaded' = <<[by |-> "loadDocs", file |-> jsonText, result |-> readDocs(jsonText)]>>
    /\ UNCHANGED <<docVars, treeVars, keyVars, jsonText>>

\* A scan loads the cache file.
LoadCache ==
    /\ loaded' = <<[by |-> "loadCache", file |-> jsonText, result |-> loadCache(jsonText)]>>
    /\ UNCHANGED <<docVars, treeVars, keyVars, jsonText>>

\* The file is written over, truncated or damaged.
Corrupt(text) ==
    /\ jsonText' = <<text>>
    /\ loaded' = <<>>
    /\ UNCHANGED <<docVars, treeVars, keyVars>>

NextLoad ==
    \/ LoadDocs
    \/ LoadCache
    \/ \E text \in Texts : Corrupt(text)

SpecLoad == InitLoad /\ [][NextLoad]_vars

\* The text is a JSON value: a number or an object of the two shapes.
IsJson(text) == text \in {<<"x">>, <<"{", "}">>, <<"{", "f", "}">>}

\* C21: loading a file whose text is not JSON raises no error and yields the
\* empty store (files = {}), respectively the empty cache (files = {},
\* lastUpdated = 0).
C21_InvalidJsonIsColdStart ==
    \A i \in 1..Len(loaded) :
        LET call == loaded[i]
        IN  call.file # <<>> /\ ~IsJson(call.file[1]) =>
                /\ ~call.result.raised
                /\ call.result.files = <<>>
                /\ call.by = "loadCache" => call.result.lastUpdated = 0

\* loadDocs has run on a docs.json cut short after its opening brace.
C21_Witness ==
    /\ loaded # <<>>
    /\ loaded[1].by = "loadDocs"
    /\ loaded[1].file = <<<<"{", "f">>>>
    /\ ~loaded[1].result.raised
    /\ loaded[1].result.files = <<>>

(***************************************************************************)
(* Errors during a generation.                                             *)
(***************************************************************************)
\* C22: when the file of a generation call is found missing, the record of
\* the path is removed from the store: here for the call that resumes after
\* the service has answered, before the record is stored.
C22_MissingFileRemovesEntry ==
    \A i \in 1..Len(promises), response \in Responses :
        promises[i].state = "svc" /\ disk[promises[i].path] = "absent" =>
            resumeAfterService(Self, disk, i, response).files[promises[i].path] = "none"

\* C23: a call whose service answer was empty leaves the store's record of
\* its path as it was before the attempt.
C23_EmptyResponseKeepsEntry ==
    [][\A i \in 1..Len(promises) :
          Leaves(i, "git") /\ promises[i].summary = "empty" =>
              /\ files'[promises[i].path] = files[promises[i].path]
              /\ persisted'[promises[i].path] = persisted[promises[i].path]]_vars

\* C26: a path whose record is stored never has the artifact file name of
\* another path with a record, and no step deletes the artifact of a path
\* that keeps its record.
C26_ArtifactsAreDistinct ==
    [][/\ \A p \in Paths, q \in Paths :
             /\ p # q /\ files'[q] # "none"
             /\ files'[p] = "current" /\ files[p] # "current"
             => safeBaseName(p) # safeBaseName(q)
       /\ \A q \in Paths :
             files'[q] # "none" /\ safeBaseName(q) \in artifacts =>
                 safeBaseName(q) \in artifacts']_vars

\* C28: one drain loop at most is active: a call of processDocumentationQueue
\* while isProcessingQueue is set changes nothing, and while the flag is set
\* only the loop itself, back from its delay, pops paths and starts calls.
C28_OneDrainLoop ==
    [][isProcessingQueue =>
          /\ processDocumentationQueue(Self, disk) = Self
          /\ loopAt # "delay" =>
                /\ IsPrefix(processingQueue, processingQueue') \/ processingQueue' = <<>>
                /\ Len(promises') <= Len(promises)
                /\ \A i \in 1..Len(promises') : promises'[i].path = promises[i].path]_vars

C28_Witness ==
    /\ isProcessingQueue
    /\ loopAt = "batch"
    /\ Len(promises) < MAX_CONCURRENT_GENERATIONS
    /\ Len(processingQueue) > 0

\* The calls of the batch that have not settled.
Unsettled == {i \in 1..Len(promises) : promises[i].state \notin {"ok", "fail"}}

\* C29: the loop leaves its await only when the last call of the batch
\* settles, and a call is started only when no call is in flight: while a
\* call has not settled, no later batch is started.
C29_BatchWaitsForAllCalls ==
    [][/\ loopAt = "batch" /\ loopAt' # "batch" => Cardinality(Unsettled) <= 1
       /\ (\E i \in 1..Len(promises') :
              i > Len(promises) \/ promises'[i].path # promises[i].path) => Unsettled = {}
       /\ Unsettled # {} => loopAt = "batch" /\ isProcessingQueue]_vars

C29_Witness ==
    /\ loopAt = "batch"
    /\ Unsettled # {}
    /\ \E i \in 1..Len(promises) : i \notin Unsettled
    /\ Len(processingQueue) > 0

\* The paths of the calls, in the order the calls were made.
PathsOf(ps) == [i \in 1..Len(ps) |-> ps[i].path]

\* C30: paths leave the queue in the order they entered it: a batch is the
\* first min(3, length) paths of the queue, in that order, the paths left
\* keep their order in front of the paths that enter later, and no other
\* step takes a path out but the one that empties the queue.
C30_BatchIsQueueHead ==
    [][LET n == Min(MAX_CONCURRENT_GENERATIONS, Len(processingQueue))
           head == SubSeq(processingQueue, 1, n)
           rest == SubSeq(processingQueue, n + 1, Len(processingQueue))
       IN  /\ Len(processingQueue) > 0 =>
                 LET m == LoopHead([Self EXCEPT !.promises = <<>>], disk)
                 IN  PathsOf(m.promises) = head /\ m.queue = rest
           /\ loopAt = "delay" /\ loopAt' # "delay" =>
                 /\ IsPrefix(rest, processingQueue')
                 /\ promises' = <<>> \/ PathsOf(promises') = head
           /\ \/ IsPrefix(processingQueue, processingQueue')
              \/ IsPrefix(rest, processingQueue')
              \/ processingQueue' = <<>>]_vars

C30_Witness ==
    /\ loopAt = "batch"
    /\ Len(promises) = MAX_CONCURRENT_GENERATIONS
    /\ Len(processingQueue) > 0

\* C31: the debounced handler, run when its timer is due for an add or a
\* change of a path that is not ignored, queues the path only if the file is on disk then; if it is
\* not, the record of the path is removed and the queue and the calls are
\* left as they were; for an ignored path the queue and the store are left
\* as they were.
C31_HandlerChecksDisk ==
    timeout = 0 => \A p \in Paths, eventType \in {"add", "change"} :
        LET n == normalizePath(p)
            m == debouncedQueueAdd(Self, disk, p, eventType)
            queued == \/ n \in Range(m.queue) /\ n \notin Range(processingQueue)
                      \/ \E i \in 1..Len(m.promises) : i > Len(promises) /\ m.promises[i].path = n
        IN  /\ shouldIgnoreFile(n) => m.queue = processingQueue /\ m.files = files
            /\ ~shouldIgnoreFile(n) /\ disk[n] = "absent" =>
                  /\ m.queue = processingQueue
                  /\ m.promises = promises
                  /\ m.files = [files EXCEPT ![n] = "none"]
            /\ ~shouldIgnoreFile(n) /\ disk[n] # "absent" =>
                  queued \/ n \in Range(processingQueue)
            /\ queued => disk[n] # "absent"

C31_Witness ==
    /\ timeout = 0
    /\ timeoutArgs[2] \in {"add", "change"}
    /\ disk[timeoutArgs[1]] = "absent"
    /\ files[timeoutArgs[1]] # "none"

\* C32: a path queued again while its generation is in flight is accepted
\* at the end of the queue, and every generation that completes writes the
\* record of its path, so that the store holds the record of the one that
\* completed last.
C32_InFlightPathIsRequeued ==
    [][/\ \A i \in InFlight :
             promises[i].path \notin Range(processingQueue) =>
                 addToQueue(Self, disk, promises[i].path).queue
                     = Append(processingQueue, promises[i].path)
       /\ \A i \in 1..Len(promises) :
             Leaves(i, "git") =>
                 files'[promises[i].path]
                     = IF promises[i].mtimeOld THEN "outdated" ELSE "current"]_vars

C32_Witness ==
    \E i \in InFlight :
        /\ promises[i].path \in Range(processingQueue)
        /\ files[promises[i].path] # "none"

\* C33: when a call leaves the service without an answer it goes on with,
\* the store and the artifacts are as they were, and no save timer is set
\* by the step.
C33_FailedServiceCallLeavesStore ==
    [][\A i \in 1..Len(promises) :
          /\ Leaves(i, "svc")
          /\ ~(Len(promises') >= i /\ promises'[i].state = "git")
          => /\ files' = files
             /\ artifacts' = artifacts
             /\ saveTimeout' \in {saveTimeout, NoTimer}]_vars

C33_Witness ==
    \E i \in 1..Len(promises) :
        /\ promises[i].state = "fail"
        /\ promises[i].called
        /\ disk[promises[i].path] = "text"
        /\ files[promises[i].path] # "none"
        /\ safeBaseName(promises[i].path) \in artifacts

\* C37: whenever control is back in the event loop, a queue that holds a
\* path has a drain loop running.
C37_NoStrandedPath ==
    Len(processingQueue) > 0 => isProcessingQueue /\ loopAt \in {"batch", "delay"}

C37_Witness ==
    /\ Len(processingQueue) > 0
    /\ loopAt = "delay"
    /\ promises = <<>>

\* C39: a record stored or removed reaches docs.json: whenever the queue is
\* empty, no call of generateDocumentation is in flight and no save timer is
\* pending, docs.json holds for every path what the store holds for it.
C39_StoreReachesDisk ==
    /\ processingQueue = <<>>
    /\ \A i \in 1..Len(promises) : promises[i].state \notin {"svc", "git"}
    /\ saveTimeout = NoTimer
    => \A p \in Paths : persisted[p] = IF files[p] = "none" THEN "none" ELSE "same"

\* At rest after a save, a record has been removed from the store and from
\* docs.json, while another record is in both.
C39_Witness ==
    /\ processingQueue = <<>>
    /\ promises = <<>>
    /\ ~isProcessingQueue
    /\ saveTimeout = NoTimer
    /\ saved # "none"
    /\ \E p \in LoadedDocs : files[p] = "none" /\ persisted[p] = "none"
    /\ \E q \in LoadedDocs : files[q] # "none" /\ persisted[q] = "same"

====
